---- MODULE Spec2Model ----
(***************************************************************************)
(* Voting state machine and poll-lifecycle scheduler of Discord_VoteBot.   *)
(*                                                                         *)
(* The store (Prisma/PostgreSQL) holds the poll and its vote rows, the     *)
(* queue (BullMQ) holds the closure job of each poll that has a duration.   *)
(*                                                                         *)
(* Every handler is an async function that gives up control at each await. *)
(*   Spec     a handler is a sequence of steps, one per store round trip   *)
(*            (the store's answer and the code up to the next await), and  *)
(*            the steps of the calls in flight interleave freely;          *)
(*   SpecSeq  every handler runs to completion in one step (the sequential *)
(*            runs of the unit tests);                                     *)
(*   SpecSame NumSame castVote calls for one triple (p, u, o) run          *)
(*            concurrently on a single-select poll.                        *)
(*   SpecQueue  addPollCloseJob and removePollCloseJob called in any order *)
(*            for several polls while the worker runs the due jobs;        *)
(*   SpecWorker the closure job of one poll under at-least-once delivery,  *)
(*            store and notification failures, retries;                    *)
(*   SpecWorkerFair  SpecWorker with a worker that keeps running;          *)
(*   SpecCreate createPoll with its options string and the failures of the *)
(*            calls it makes, closePoll and the worker;                    *)
(*   SpecResults the operations of VoteService called one after the other, *)
(*            each with a store call that may fail;                        *)
(*   SpecTally getPollResults and getVotingStats on a poll holding every   *)
(*            split of up to MaxVotes votes;                               *)
(*   SpecCross castVote calls interleaved on NumCrossPolls polls;          *)
(*   SpecGone  the closure job of a poll that is deleted out-of-band;      *)
(*   SpecChecks castVote and validateVote on a poll that expires;          *)
(*   SpecLive  SpecCreate with the bot and the worker running;             *)
(*   SpecAnnounce the closure job with the tallies it read, and casts;     *)
(*   SpecButton handleVoteButton, one press after the other.               *)
(***************************************************************************)
EXTENDS Integers, FiniteSets, Sequences, Bags, TLC

\* ---------------------------------------------------------------- bounds
MaxPolls == 1
NumUsers == 2
\* castVote calls in flight at the same time
NumCasts == 2
\* closePoll calls in flight at the same time
NumClosers == 1
\* the clock runs from 0 to MaxTime (minutes)
MaxTime == 2
\* concurrent calls of SpecSame
NumSame == 5
\* polls of SpecQueue
NumQueuePolls == 2
\* runs of the worker callback in flight at the same time
MaxRuns == 2
\* times the queue hands an active job to the worker again
MaxStalls == 1
\* addPollCloseJob calls per poll
NumAdds == 2
\* removePollCloseJob calls in flight at the same time
NumRemovers == 1
\* the polls of SpecCross
NumCrossPolls == 2
\* votes on the poll whose tallies are computed
MaxVotes == 40

\* ------------------------------------------------------ program constants
MinOptions == 2
MaxOptions == 10
\* defaultJobOptions.attempts
Attempts == 3
\* the worker's concurrency
Concurrency == 5

PollIds == 1..MaxPolls
Users == 1..NumUsers
Times == 0..MaxTime

\* option counts a create request is tried with: too few, valid, too many
OptionCounts == {MinOptions - 1, MinOptions, MaxOptions + 1}
\* poll durations in minutes; NoDuration is the absent option (null)
NoDuration == 0
Durations == {NoDuration, 1}
\* expiresAt of a poll without duration (null)
NoDate == -1
\* the users who create polls, and the anonymity settings they choose
Creators == {1}
Anonymity == {FALSE}

\* an option id is <<poll, position>>; Bogus belongs to no poll
Bogus == <<0, 0>>
OptionsOf(p, n) == {<<p, k>> : k \in 0..(n - 1)}
OptionInputs == UNION {OptionsOf(p, MinOptions) : p \in PollIds} \cup {Bogus}

\* the id of a vote row is unique and opaque (a cuid): <<poll, user, option,
\* n>>, n telling apart the rows of one triple that are in the store.  Ids
\* are never reused, so the id of a deleted row matches no row ever after:
\* a call in flight that still holds one holds GoneId
Incarnations == 0..(NumCasts + NumSame)
NoId == <<0, 0, Bogus, 0>>
GoneId == <<0, 0, Bogus, 1>>

VARIABLES
    polls,      \* the poll table: poll id -> row
    votes,      \* the vote table: a set of rows
    jobs,       \* the poll-close queue: poll id -> job
    now,        \* the clock
    casts,      \* the castVote calls in flight (a bag)
    closers,    \* the closePoll calls in flight (a bag)
    creating,   \* the createPoll call in flight
    reply,      \* the last message returned to a caller
    hist,       \* SpecSeq: per user, the last castVote call made
    answer,     \* SpecResults: what the last read operation returned
    queue,      \* SpecQueue: the jobs of the poll-close queue (a bag)
    runs,       \* SpecQueue: the runs of the worker callback in flight (a bag)
    removers,   \* SpecQueue: the removePollCloseJob calls in flight (a bag)
    log         \* SpecQueue: per poll, what was done for it so far

queueVars == <<queue, runs, removers, log>>

vars == <<polls, votes, jobs, now, casts, closers, creating, reply, hist,
          answer, queue, runs, removers, log>>

\* ------------------------------------------------------------ the store
NoPollRec == [id |-> 0, status |-> "NONE", creatorId |-> 0, allowMultiple |-> FALSE,
              isAnonymous |-> FALSE, expiresAt |-> NoDate, nOptions |-> 0,
              messageId |-> FALSE]

\* prisma.poll.findUnique: the poll row, or null
FindPoll(ps, p) == IF p \in DOMAIN ps THEN ps[p] ELSE NoPollRec

\* votes: { where: { userId } } of poll p
UserVotes(vs, p, u) == {v \in vs : v.pollId = p /\ v.userId = u}

\* the options user u holds a vote for on poll p
HeldOptions(vs, p, u) == {v.optionId : v \in UserVotes(vs, p, u)}

\* the unique index on (userId, pollId, optionId)
SameTriple(v, p, u, o) == v.pollId = p /\ v.userId = u /\ v.optionId = o

\* an insert that is not checked against the unique index
VoteCreateNoIndex(vs, id, p, u, o) ==
    [ok |-> TRUE,
     votes |-> vs \cup {[id |-> id, pollId |-> p, userId |-> u, optionId |-> o]}]

\* prisma.vote.create: rejected with P2002 when the triple is already there
VoteCreate(vs, id, p, u, o) ==
    IF \E v \in vs : SameTriple(v, p, u, o)
    THEN [ok |-> FALSE, votes |-> vs]
    ELSE [ok |-> TRUE,
          votes |-> vs \cup {[id |-> id, pollId |-> p, userId |-> u, optionId |-> o]}]

\* prisma.vote.delete({ where: { id } }): throws when the row is gone
VoteDelete(vs, id) ==
    [ok |-> \E v \in vs : v.id = id, votes |-> {v \in vs : v.id # id}]

\* a deleteMany whose filter leaves out the user
VoteDeleteManyPoll(vs, p, u) == {v \in vs : v.pollId # p}

\* prisma.vote.deleteMany({ where: { pollId, userId } })
VoteDeleteMany(vs, p, u) == vs \ UserVotes(vs, p, u)

\* a close that flips the status instead of setting it
PollCloseToggle(ps, p) ==
    [ps EXCEPT ![p].status = IF @ = "OPEN" THEN "CLOSED" ELSE "OPEN"]

\* prisma.poll.update({ where: { id }, data: { status: 'CLOSED' } })
PollClose(ps, p) == [ps EXCEPT ![p].status = "CLOSED"]

\* prisma.poll.update({ where: { id }, data: { messageId } })
PollSetMessage(ps, p) == [ps EXCEPT ![p].messageId = TRUE]

\* the ids a new row for (p, u, o) can get: any id not in use is as good as
\* any other, the first one is taken
FreeIds(used, p, u, o) == {<<p, u, o, n>> : n \in Incarnations} \ used
FreshId(used, p, u, o) ==
    CHOOSE i \in FreeIds(used, p, u, o) : \A j \in FreeIds(used, p, u, o) : i[4] <= j[4]

\* ---------------------------------------------------------- castVote
NotFoundMsg == "Poll not found"
ClosedMsg == "Poll is closed"
ExpiredMsg == "Poll has expired"
InvalidMsg == "Invalid option"
RemovedMsg == "removed"
AddedMsg == "added"
DuplicateMsg == "You have already voted for this option"
ErrorMsg == "An error occurred while processing your vote"

\* an expiry check that is never true
ExpiredNever(poll, t) == FALSE

\* poll.expiresAt && poll.expiresAt < new Date()
Expired(poll, t) == poll.expiresAt # NoDate /\ poll.expiresAt < t

\* the preconditions without the status check
PrecheckNoClosed(found, poll, o, t) ==
    IF ~found THEN NotFoundMsg
    ELSE IF Expired(poll, t) THEN ExpiredMsg
    ELSE IF o \notin OptionsOf(poll.id, poll.nOptions) THEN InvalidMsg
    ELSE "ok"

\* the preconditions with the expiry looked at before the status
PrecheckExpiredFirst(found, poll, o, t) ==
    IF ~found THEN NotFoundMsg
    ELSE IF Expired(poll, t) THEN ExpiredMsg
    ELSE IF poll.status = "CLOSED" THEN ClosedMsg
    ELSE IF o \notin OptionsOf(poll.id, poll.nOptions) THEN InvalidMsg
    ELSE "ok"

\* the preconditions of a cast, in the order of the code (lines 24-39)
Precheck(found, poll, o, t) ==
    IF ~found THEN NotFoundMsg
    ELSE IF poll.status = "CLOSED" THEN ClosedMsg
    ELSE IF Expired(poll, t) THEN ExpiredMsg
    ELSE IF o \notin OptionsOf(poll.id, poll.nOptions) THEN InvalidMsg
    ELSE "ok"

\* a plan that inserts without looking for the vote to toggle off
PlanNoToggle(poll, held, o) ==
    IF ~poll.allowMultiple /\ Cardinality(held) > 0
    THEN [next |-> "deleteMany", id |-> NoId]
    ELSE [next |-> "create", id |-> NoId]

\* a plan that never clears the user's other votes
PlanNoReplace(poll, held, o) ==
    IF \E v \in held : v.optionId = o
    THEN [next |-> "delete", id |-> (CHOOSE v \in held : v.optionId = o).id]
    ELSE [next |-> "create", id |-> NoId]

\* a plan that clears the user's other votes whatever allowMultiple says
PlanAlwaysReplace(poll, held, o) ==
    IF \E v \in held : v.optionId = o
    THEN [next |-> "delete", id |-> (CHOOSE v \in held : v.optionId = o).id]
    ELSE IF Cardinality(held) > 0
    THEN [next |-> "deleteMany", id |-> NoId]
    ELSE [next |-> "create", id |-> NoId]

\* the store call a valid cast goes on with (lines 41-64): toggle off the
\* vote it found, clear the user's votes first, or insert
Plan(poll, held, o) ==
    IF \E v \in held : v.optionId = o
    THEN [next |-> "delete", id |-> (CHOOSE v \in held : v.optionId = o).id]
    ELSE IF ~poll.allowMultiple /\ Cardinality(held) > 0
    THEN [next |-> "deleteMany", id |-> NoId]
    ELSE [next |-> "create", id |-> NoId]

\* the outcome of prisma.vote.delete (lines 46-53, 91-97)
DeleteResult(r) == IF r.ok THEN RemovedMsg ELSE ErrorMsg

\* a handler that does not tell P2002 from the other errors
CreateResultGeneric(r) == IF r.ok THEN AddedMsg ELSE ErrorMsg

\* the outcome of prisma.vote.create (lines 67-89)
CreateResult(r) == IF r.ok THEN AddedMsg ELSE DuplicateMsg

\* a call in flight: its arguments, the store call it is about to make and
\* the id of the vote it is about to delete
CastRec(pc, p, u, o, id) ==
    [pc |-> pc, pollId |-> p, userId |-> u, optionId |-> o, target |-> id]

One(c) == SetToBag({c})

\* the ids of the rows in the store
UsedIds(vs) == {v.id : v \in vs}

\* the calls in flight once the rows with these ids are deleted
Forget(cs, ids) ==
    BagOfAll(LAMBDA c : IF c.target \in ids THEN [c EXCEPT !.target = GoneId] ELSE c, cs)

\* castVote(p, u, o) up to its first write: findUnique is answered and the
\* checks run (new Date() is read as the answer arrives); rest are the other
\* calls in flight
CastCall(p, u, o, rest) ==
    /\ LET poll == FindPoll(polls, p)
           pre == Precheck(p \in DOMAIN polls, poll, o, now)
           plan == Plan(poll, UserVotes(votes, p, u), o)
       IN IF pre # "ok"
          THEN /\ casts' = rest
               /\ reply' = pre
          ELSE /\ casts' = rest (+) One(CastRec(plan.next, p, u, o, plan.id))
               /\ UNCHANGED reply
    /\ UNCHANGED <<polls, votes, jobs, now, closers, creating, hist, answer>>
    /\ UNCHANGED queueVars

CastRead(p, u, o) ==
    /\ BagCardinality(casts) < NumCasts
    /\ CastCall(p, u, o, casts)

\* toggle off: prisma.vote.delete by the id that was read
CastDelete(c) ==
    /\ BagIn(c, casts)
    /\ c.pc = "delete"
    /\ LET r == VoteDelete(votes, c.target)
       IN /\ votes' = r.votes
          /\ reply' = DeleteResult(r)
    /\ casts' = Forget(casts (-) One(c), {c.target})
    /\ UNCHANGED <<polls, jobs, now, closers, creating, hist, answer>>
    /\ UNCHANGED queueVars

\* replace: prisma.vote.deleteMany of the user's votes on the poll
CastDeleteMany(c) ==
    /\ BagIn(c, casts)
    /\ c.pc = "deleteMany"
    /\ votes' = VoteDeleteMany(votes, c.pollId, c.userId)
    /\ casts' = Forget((casts (-) One(c)) (+) One([c EXCEPT !.pc = "create"]),
                       UsedIds(UserVotes(votes, c.pollId, c.userId)))
    /\ UNCHANGED <<polls, jobs, now, closers, creating, reply, hist, answer>>
    /\ UNCHANGED queueVars

\* prisma.vote.create and the P2002 handler
CastCreate(c) ==
    /\ BagIn(c, casts)
    /\ c.pc = "create"
    /\ FreeIds(UsedIds(votes), c.pollId, c.userId, c.optionId) # {}
    /\ LET r == VoteCreate(votes, FreshId(UsedIds(votes), c.pollId, c.userId, c.optionId),
                           c.pollId, c.userId, c.optionId)
       IN /\ votes' = r.votes
          /\ reply' = CreateResult(r)
    /\ casts' = casts (-) One(c)
    /\ UNCHANGED <<polls, jobs, now, closers, creating, hist, answer>>
    /\ UNCHANGED queueVars

\* ---------------------------------------------------------- createPoll
TooFewMsg == "A poll must have at least 2 options."
TooManyMsg == "A poll cannot have more than 10 options."
CreatedMsg == "created"

IdleCreate == [pc |-> "idle", pollId |-> 0, expiresAt |-> NoDate]

\* the store assigns the ids
NextPollId == Cardinality(DOMAIN polls) + 1

\* the row prisma.poll.create inserts (status defaults to OPEN)
NewPoll(p, u, multi, anon, expiresAt, n) ==
    [id |-> p, status |-> "OPEN", creatorId |-> u, allowMultiple |-> multi,
     isAnonymous |-> anon, expiresAt |-> expiresAt, nOptions |-> n, messageId |-> FALSE]

\* duration ? new Date(Date.now() + duration * 60 * 1000) : null
ExpiresAt(duration, t) == IF duration # NoDuration THEN t + duration ELSE NoDate

\* the check of the option list without its upper limit
ValidateOptionsNoMax(n) ==
    IF n < MinOptions THEN TooFewMsg ELSE "ok"

\* the option list is valid when it has 2 to 10 entries
ValidateOptions(n) ==
    IF n < MinOptions THEN TooFewMsg
    ELSE IF n > MaxOptions THEN TooManyMsg
    ELSE "ok"

\* the options string, cut at its ';': an entry is a text, blanks or nothing
BlankEntry == " "
EmptyEntry == ""
TextEntry == "a"

\* opt.trim()
Trim(e) == IF e = BlankEntry THEN EmptyEntry ELSE e

\* optionsString.split(';').map(opt => opt.trim()).filter(opt => opt.length > 0)
ParseOptions(raw) ==
    SelectSeq([i \in DOMAIN raw |-> Trim(raw[i])], LAMBDA e : e # EmptyEntry)

\* an options string of n texts after b blank entries and before an empty one
OptionString(n, b) ==
    [i \in 1..(b + n + 1) |-> IF i <= b THEN BlankEntry
                              ELSE IF i <= b + n THEN TextEntry
                              ELSE EmptyEntry]

\* the options strings a create request is tried with
OptionStrings ==
    {OptionString(n, b) : n \in OptionCounts \cup {MaxOptions}, b \in {0, 1}}

\* pollCloseQueue.add with jobId poll-<pollId>: an id already in the queue
\* is not added again
AddPollCloseJob(js, p, closeAt, t) ==
    IF p \in DOMAIN js THEN js
    ELSE (p :> [state |-> "waiting", delay |-> closeAt - t, addedAt |-> t,
                pc |-> "none", messageId |-> FALSE]) @@ js

\* validation of the option list and prisma.poll.create
CreatePollInsert(u, multi, anon, duration, n) ==
    /\ creating.pc = "idle"
    /\ NextPollId \in PollIds
    /\ IF ValidateOptions(n) # "ok"
       THEN /\ reply' = ValidateOptions(n)
            /\ UNCHANGED <<polls, creating>>
       ELSE LET p == NextPollId
            IN /\ polls' = (p :> NewPoll(p, u, multi, anon, ExpiresAt(duration, now), n)) @@ polls
               /\ creating' = [pc |-> "message", pollId |-> p,
                               expiresAt |-> ExpiresAt(duration, now)]
               /\ UNCHANGED reply
    /\ UNCHANGED <<votes, jobs, now, casts, closers, hist, answer>>
    /\ UNCHANGED queueVars

\* the poll message is sent and its id stored on the poll
CreatePollSetMessage ==
    /\ creating.pc = "message"
    /\ polls' = PollSetMessage(polls, creating.pollId)
    /\ reply' = CreatedMsg
    /\ creating' = IF creating.expiresAt # NoDate
                   THEN [creating EXCEPT !.pc = "schedule"]
                   ELSE IdleCreate
    /\ UNCHANGED <<votes, jobs, now, casts, closers, hist, answer>>
    /\ UNCHANGED queueVars

\* if (expiresAt) await addPollCloseJob(poll.id, expiresAt)
CreatePollSchedule ==
    /\ creating.pc = "schedule"
    /\ jobs' = AddPollCloseJob(jobs, creating.pollId, creating.expiresAt, now)
    /\ creating' = IdleCreate
    /\ UNCHANGED <<polls, votes, now, casts, closers, reply, hist, answer>>
    /\ UNCHANGED queueVars

\* the command is received with its options string, the list is parsed and
\* checked, and the poll is inserted (lines 97-150)
CreatePollCall(u, multi, anon, duration, raw) ==
    CreatePollInsert(u, multi, anon, duration, Len(ParseOptions(raw)))

CreateErrorMsg == "An error occurred while creating the poll."

\* prisma.poll.create throws: the catch block replies (lines 216-222)
CreatePollInsertFail(raw) ==
    /\ creating.pc = "idle"
    /\ ValidateOptions(Len(ParseOptions(raw))) = "ok"
    /\ reply' = CreateErrorMsg
    /\ UNCHANGED <<polls, votes, jobs, now, casts, closers, creating, hist, answer>>
    /\ UNCHANGED queueVars

\* interaction.reply, prisma.poll.update or addPollCloseJob throws after the
\* poll was inserted and the call ends in the catch block (lines 216-222),
\* whose reply is refused when the poll message was sent already
CreatePollFail ==
    /\ creating.pc \in {"message", "schedule"}
    /\ creating' = IdleCreate
    /\ \/ creating.pc = "message" /\ reply' = CreateErrorMsg
       \/ creating.pc = "message" /\ reply' = CreatedMsg
       \/ creating.pc = "schedule" /\ UNCHANGED reply
    /\ UNCHANGED <<polls, votes, jobs, now, casts, closers, hist, answer>>
    /\ UNCHANGED queueVars

\* ----------------------------------------------------------- closePoll
CloseNotFoundMsg == "Poll not found."
ForbiddenMsg == "Only the poll creator can close this poll."
AlreadyClosedMsg == "This poll is already closed."
ClosedOkMsg == "Poll has been closed."

\* the checks without the creator check
CloseDecideAnyone(found, poll, u) ==
    IF ~found THEN CloseNotFoundMsg
    ELSE IF poll.status = "CLOSED" THEN AlreadyClosedMsg
    ELSE "update"

\* the checks without the status check
CloseDecideNoClosed(found, poll, u) ==
    IF ~found THEN CloseNotFoundMsg
    ELSE IF poll.creatorId # u THEN ForbiddenMsg
    ELSE "update"

\* what closePoll decides from the poll it loaded (lines 240-262)
CloseDecide(found, poll, u) ==
    IF ~found THEN CloseNotFoundMsg
    ELSE IF poll.creatorId # u THEN ForbiddenMsg
    ELSE IF poll.status = "CLOSED" THEN AlreadyClosedMsg
    ELSE "update"

CloseRec(p, u) == [pollId |-> p, userId |-> u]

\* the close command is received, findUnique is answered, the checks run
ClosePollRead(p, u) ==
    /\ BagCardinality(closers) < NumClosers
    /\ LET d == CloseDecide(p \in DOMAIN polls, FindPoll(polls, p), u)
       IN IF d = "update"
          THEN /\ closers' = closers (+) One(CloseRec(p, u))
               /\ UNCHANGED reply
          ELSE /\ reply' = d
               /\ UNCHANGED closers
    /\ UNCHANGED <<polls, votes, jobs, now, casts, creating, hist, answer>>
    /\ UNCHANGED queueVars

\* prisma.poll.update to CLOSED and the reply
ClosePollUpdate(c) ==
    /\ BagIn(c, closers)
    /\ polls' = PollClose(polls, c.pollId)
    /\ closers' = closers (-) One(c)
    /\ reply' = ClosedOkMsg
    /\ UNCHANGED <<votes, jobs, now, casts, creating, hist, answer>>
    /\ UNCHANGED queueVars

\* --------------------------------------------------- the closure worker
\* a delayed job is handed to the worker once its delay has passed
JobDue(j, t) == t >= j.addedAt + j.delay

\* the worker takes the job of poll p and loads the poll (lines 46-75)
JobRead(p) ==
    /\ p \in DOMAIN jobs
    /\ jobs[p].state = "waiting"
    /\ JobDue(jobs[p], now)
    /\ jobs' = [jobs EXCEPT ![p] =
          IF p \notin DOMAIN polls \/ polls[p].status = "CLOSED"
          THEN [@ EXCEPT !.state = "completed"]
          ELSE [@ EXCEPT !.state = "active", !.pc = "update",
                         !.messageId = polls[p].messageId]]
    /\ UNCHANGED <<polls, votes, now, casts, closers, creating, reply, hist, answer>>
    /\ UNCHANGED queueVars

\* prisma.poll.update to CLOSED (lines 78-81)
JobUpdate(p) ==
    /\ p \in DOMAIN jobs
    /\ jobs[p].state = "active" /\ jobs[p].pc = "update"
    /\ polls' = PollClose(polls, p)
    /\ jobs' = [jobs EXCEPT ![p] =
          IF jobs[p].messageId THEN [@ EXCEPT !.pc = "notify"]
          ELSE [@ EXCEPT !.state = "completed", !.pc = "none"]]
    /\ UNCHANGED <<votes, now, casts, closers, creating, reply, hist, answer>>
    /\ UNCHANGED queueVars

\* the message is edited and the results are announced (lines 86-142)
JobNotify(p) ==
    /\ p \in DOMAIN jobs
    /\ jobs[p].state = "active" /\ jobs[p].pc = "notify"
    /\ jobs' = [jobs EXCEPT ![p] = [@ EXCEPT !.state = "completed", !.pc = "none"]]
    /\ UNCHANGED <<polls, votes, now, casts, closers, creating, reply, hist, answer>>
    /\ UNCHANGED queueVars

\* ---------------------------------------------------------------- time
Tick ==
    /\ now < MaxTime
    /\ now' = now + 1
    /\ UNCHANGED <<polls, votes, jobs, casts, closers, creating, reply, hist, answer>>
    /\ UNCHANGED queueVars

\* ------------------------------------------------ the poll-close queue
\* SpecQueue models the queue itself: its jobs are a bag of records keyed
\* by pollId (jobId poll-<pollId>), and a job can be handed to the worker
\* more than once (at-least-once delivery), so that several runs of the
\* callback for one poll are in flight together.
QueuePolls == 1..NumQueuePolls

NoEntries == [adds |-> 0, edits |-> 0, sends |-> 0, creatorClosed |-> FALSE]

QueueIdle ==
    /\ queue = EmptyBag
    /\ runs = EmptyBag
    /\ removers = EmptyBag
    /\ log = [p \in QueuePolls |-> NoEntries]

\* the jobs of the queue whose id is poll-<p>
JobsOf(q, p) == {j \in BagToSet(q) : j.pollId = p}

\* a job that is not finished: delayed or waiting for the worker, or active
Live(j) == j.state \in {"waiting", "active"}

\* the number of live jobs of poll p
LiveCount(q, p) ==
    BagCardinality([j \in {k \in JobsOf(q, p) : Live(k)} |-> q[j]])

NewJob(p, closeAt, t) ==
    [pollId |-> p, state |-> "waiting", delay |-> closeAt - t, addedAt |-> t,
     attempts |-> 0, stalls |-> 0]

\* queue.add without a job id: every call adds a job
EnqueueNoKey(q, p, closeAt, t) == q (+) One(NewJob(p, closeAt, t))

\* pollCloseQueue.add with jobId poll-<pollId>: the call is ignored when the
\* queue holds a job with that id
Enqueue(q, p, closeAt, t) ==
    IF JobsOf(q, p) # {} THEN q
    ELSE q (+) One(NewJob(p, closeAt, t))

\* a removal that empties the queue
DequeueAll(q, p) == EmptyBag

\* job.remove(): all there is under the id is removed
Dequeue(q, p) == [j \in (BagToSet(q) \ JobsOf(q, p)) |-> q[j]]

\* the job j replaced by k
Replace(q, j, k) == (q (-) One(j)) (+) One(k)

\* a thrown error counts as an attempt and the job is never given up
RetryAlways(j, t) == [j EXCEPT !.state = "waiting", !.delay = 0, !.addedAt = t]

\* the callback threw: the attempt is counted; below the ceiling the job
\* waits for its retry (the backoff of 1 s, 2 s is below the resolution of
\* the clock), at the ceiling it is failed for good
Retry(j, t) ==
    IF j.attempts + 1 >= Attempts
    THEN [j EXCEPT !.state = "failed", !.attempts = @ + 1]
    ELSE [j EXCEPT !.state = "waiting", !.attempts = @ + 1,
                   !.delay = 0, !.addedAt = t]

RunRec(p, pc, owner, messageId) ==
    [pollId |-> p, pc |-> pc, owner |-> owner, messageId |-> messageId]

\* the active job the run r works for; a run that lost the job to a later
\* delivery has none
OwnJob(q, r) == {j \in JobsOf(q, r.pollId) : r.owner /\ j.state = "active"}

\* the queue after the callback of run r returned (ok) or threw
Settle(q, r, ok, t) ==
    IF OwnJob(q, r) = {} THEN q
    ELSE LET j == CHOOSE k \in OwnJob(q, r) : TRUE
         IN Replace(q, j, IF ok THEN [j EXCEPT !.state = "completed"] ELSE Retry(j, t))

\* the worker's checks without the status check
WorkerDecideAlways(found, poll) ==
    IF ~found THEN "skip" ELSE "update"

\* the worker's checks without the test for null
WorkerDecideNoNull(found, poll) ==
    IF poll.status = "CLOSED" THEN "skip" ELSE "update"

\* what the callback decides from the poll it loaded (lines 67-75)
WorkerDecide(found, poll) ==
    IF ~found THEN "skip"
    ELSE IF poll.status = "CLOSED" THEN "skip"
    ELSE "update"

\* a notification failure that is thrown on
NotifyFailedRethrow(q, r, t) == Settle(q, r, FALSE, t)

\* the inner catch (lines 138-141): the failure is logged, the callback
\* returns normally
NotifyFailed(q, r, t) == Settle(q, r, TRUE, t)

\* an update that throws after the row was written
UpdateFailedWritten(ps, p) == PollClose(ps, p)

\* prisma.poll.update threw: the row is as it was
UpdateFailed(ps, p) == ps

JobAddedMsg == "job scheduled"
NoJobMsg == "no job to remove"
JobRemovedMsg == "job removed"
JobLockedMsg == "job could not be removed"

Bump(l, p, field) == [l EXCEPT ![p][field] = @ + 1]

\* addPollCloseJob(p, expiresAt), as createPoll calls it
ScheduleJob(p) ==
    /\ p \in DOMAIN polls
    /\ polls[p].expiresAt # NoDate
    /\ log[p].adds < NumAdds
    /\ queue' = Enqueue(queue, p, polls[p].expiresAt, now)
    /\ log' = Bump(log, p, "adds")
    /\ reply' = JobAddedMsg
    /\ UNCHANGED <<polls, votes, jobs, now, casts, closers, creating, hist, answer, runs, removers>>

\* removePollCloseJob(p): getJob is answered
RemoveGet(p) ==
    /\ BagCardinality(removers) < NumRemovers
    /\ IF JobsOf(queue, p) = {}
       THEN /\ reply' = NoJobMsg
            /\ UNCHANGED removers
       ELSE /\ removers' = removers (+) One([pollId |-> p])
            /\ UNCHANGED reply
    /\ UNCHANGED <<polls, votes, jobs, now, casts, closers, creating, hist, answer, queue, runs, log>>

\* removePollCloseJob(p): job.remove(); the removal of a job the worker
\* holds is refused
RemoveDo(c) ==
    /\ BagIn(c, removers)
    /\ removers' = removers (-) One(c)
    /\ IF \E j \in JobsOf(queue, c.pollId) : j.state = "active"
       THEN /\ reply' = JobLockedMsg
            /\ UNCHANGED queue
       ELSE /\ queue' = Dequeue(queue, c.pollId)
            /\ reply' = JobRemovedMsg
    /\ UNCHANGED <<polls, votes, jobs, now, casts, closers, creating, hist, answer, runs, log>>

\* the worker takes a job that is due and calls the callback
JobTake(j) ==
    /\ BagIn(j, queue)
    /\ j.state = "waiting" /\ JobDue(j, now)
    /\ BagCardinality(runs) < MaxRuns /\ BagCardinality(runs) < Concurrency
    /\ queue' = Replace(queue, j, [j EXCEPT !.state = "active"])
    /\ runs' = runs (+) One(RunRec(j.pollId, "read", TRUE, FALSE))
    /\ UNCHANGED <<polls, votes, jobs, now, casts, closers, creating, reply, hist, answer, removers, log>>

\* the job's lock expired while its callback runs: the queue hands the job
\* to the worker again, the earlier run goes on without the job
JobStall(j) ==
    /\ BagIn(j, queue)
    /\ j.state = "active" /\ j.stalls < MaxStalls
    /\ BagCardinality(runs) < MaxRuns /\ BagCardinality(runs) < Concurrency
    /\ queue' = Replace(queue, j, [j EXCEPT !.stalls = @ + 1])
    /\ runs' = BagOfAll(LAMBDA r : IF r.pollId = j.pollId
                                    THEN [r EXCEPT !.owner = FALSE] ELSE r, runs)
               (+) One(RunRec(j.pollId, "read", TRUE, FALSE))
    /\ UNCHANGED <<polls, votes, jobs, now, casts, closers, creating, reply, hist, answer, removers, log>>

\* findUnique is answered (lines 52-75)
RunRead(r) ==
    /\ BagIn(r, runs) /\ r.pc = "read"
    /\ LET p == r.pollId
           d == WorkerDecide(p \in DOMAIN polls, FindPoll(polls, p))
       IN IF d = "skip"
          THEN /\ runs' = runs (-) One(r)
               /\ queue' = Settle(queue, r, TRUE, now)
          ELSE /\ runs' = (runs (-) One(r)) (+)
                          One([r EXCEPT !.pc = "update", !.messageId = FindPoll(polls, p).messageId])
               /\ UNCHANGED queue
    /\ UNCHANGED <<polls, votes, jobs, now, casts, closers, creating, reply, hist, answer, removers, log>>

\* findUnique throws: the outer catch rethrows (lines 144-147)
RunReadFail(r) ==
    /\ BagIn(r, runs) /\ r.pc = "read"
    /\ runs' = runs (-) One(r)
    /\ queue' = Settle(queue, r, FALSE, now)
    /\ UNCHANGED <<polls, votes, jobs, now, casts, closers, creating, reply, hist, answer, removers, log>>

\* prisma.poll.update to CLOSED (lines 78-81), then if (poll.messageId)
RunUpdate(r) ==
    /\ BagIn(r, runs) /\ r.pc = "update"
    /\ r.pollId \in DOMAIN polls
    /\ polls' = PollClose(polls, r.pollId)
    /\ IF r.messageId
       THEN /\ runs' = (runs (-) One(r)) (+) One([r EXCEPT !.pc = "edit"])
            /\ UNCHANGED queue
       ELSE /\ runs' = runs (-) One(r)
            /\ queue' = Settle(queue, r, TRUE, now)
    /\ UNCHANGED <<votes, jobs, now, casts, closers, creating, reply, hist, answer, removers, log>>

\* prisma.poll.update throws: the outer catch rethrows
RunUpdateFail(r) ==
    /\ BagIn(r, runs) /\ r.pc = "update"
    /\ polls' = UpdateFailed(polls, r.pollId)
    /\ runs' = runs (-) One(r)
    /\ queue' = Settle(queue, r, FALSE, now)
    /\ UNCHANGED <<votes, jobs, now, casts, closers, creating, reply, hist, answer, removers, log>>

\* prisma.poll.update finds no row to update and throws (P2025): the outer
\* catch rethrows
RunUpdateGone(r) ==
    /\ BagIn(r, runs) /\ r.pc = "update"
    /\ r.pollId \notin DOMAIN polls
    /\ runs' = runs (-) One(r)
    /\ queue' = Settle(queue, r, FALSE, now)
    /\ UNCHANGED <<polls, votes, jobs, now, casts, closers, creating, reply, hist, answer, removers, log>>

\* the poll row is deleted out-of-band (nothing in the program deletes a
\* poll), its votes with it
DeletePoll(p) ==
    /\ p \in DOMAIN polls
    /\ polls' = [q \in DOMAIN polls \ {p} |-> polls[q]]
    /\ votes' = {v \in votes : v.pollId # p}
    /\ UNCHANGED <<jobs, now, casts, closers, creating, reply, hist, answer>>
    /\ UNCHANGED queueVars

\* channel and message are fetched, the message is edited (lines 88-121)
RunEdit(r) ==
    /\ BagIn(r, runs) /\ r.pc = "edit"
    /\ log' = Bump(log, r.pollId, "edits")
    /\ runs' = (runs (-) One(r)) (+) One([r EXCEPT !.pc = "send"])
    /\ UNCHANGED <<polls, votes, jobs, now, casts, closers, creating, reply, hist, answer, queue, removers>>

\* channel.send of the results (lines 123-135), the callback returns
RunSend(r) ==
    /\ BagIn(r, runs) /\ r.pc = "send"
    /\ log' = Bump(log, r.pollId, "sends")
    /\ runs' = runs (-) One(r)
    /\ queue' = Settle(queue, r, TRUE, now)
    /\ UNCHANGED <<polls, votes, jobs, now, casts, closers, creating, reply, hist, answer, removers>>

\* a fetch, the edit or the send throws
RunNotifyFail(r) ==
    /\ BagIn(r, runs) /\ r.pc \in {"edit", "send"}
    /\ runs' = runs (-) One(r)
    /\ queue' = NotifyFailed(queue, r, now)
    /\ UNCHANGED <<polls, votes, jobs, now, casts, closers, creating, reply, hist, answer, removers, log>>

\* closePoll by the creator of p, from call to return
CreatorClose(p) ==
    /\ p \in DOMAIN polls
    /\ LET d == CloseDecide(TRUE, polls[p], polls[p].creatorId)
       IN IF d = "update"
          THEN /\ polls' = PollClose(polls, p)
               /\ reply' = ClosedOkMsg
               /\ log' = [log EXCEPT ![p].creatorClosed = TRUE]
          ELSE /\ reply' = d
               /\ UNCHANGED <<polls, log>>
    /\ UNCHANGED <<votes, jobs, now, casts, closers, creating, hist, answer, queue, runs, removers>>

\* ------------------------------------------- double-precision numbers
\* count / totalVotes and its product with 100 are IEEE 754 doubles, whose
\* significand has Precision bits.  A positive double is kept as
\* [sig |-> x, scale |-> s]: x is a sequence of limbs, the first one holding
\* the bits in front of the other Limbs limbs of LimbBits bits each, and the
\* number is x / 2^(Precision - 1 + s).
Precision == 53
LimbBits == 13
Limbs == (Precision - 1) \div LimbBits

RECURSIVE Pow2(_)
Pow2(n) == IF n = 0 THEN 1 ELSE 2 * Pow2(n - 1)

Limb == Pow2(LimbBits)

RECURSIVE BitLength(_)
BitLength(n) == IF n = 0 THEN 0 ELSE 1 + BitLength(n \div 2)

RECURSIVE Carry(_)
\* the same number with every limb but the first below Limb
Carry(x) ==
    IF Len(x) = 1 THEN x
    ELSE LET n == Len(x)
         IN Carry(SubSeq(x, 1, n - 2) \o <<x[n - 1] + (x[n] \div Limb)>>)
               \o <<x[n] % Limb>>

\* x + v, v added to the last limb
AddLast(x, v) == Carry([x EXCEPT ![Len(x)] = @ + v])

\* x * k for a small k
Multiply(x, k) == Carry([i \in DOMAIN x |-> x[i] * k])

RECURSIVE DivLimbs(_, _, _)
\* the first n limbs after the binary point of rem / t, for rem < t
DivLimbs(rem, t, n) ==
    IF n = 0 THEN <<>>
    ELSE <<(rem * Limb) \div t>> \o DivLimbs((rem * Limb) % t, t, n - 1)

RECURSIVE DivRest(_, _, _)
\* what is left of rem after these n limbs
DivRest(rem, t, n) ==
    IF n = 0 THEN rem ELSE DivRest((rem * Limb) % t, t, n - 1)

RECURSIVE Scale(_, _)
\* the least s with c * 2^s >= t, for 0 < c <= t
Scale(c, t) == IF c >= t THEN 0 ELSE 1 + Scale(2 * c, t)

\* the double c / t for integers 0 < c <= t: c * 2^s / t lies in [1, 2), so
\* its first bit is 1 and the next Precision - 1 bits come from the long
\* division; the bits after them decide the rounding (to nearest, ties to
\* the even significand)
Quotient(c, t) ==
    LET s == Scale(c, t)
        rem == c * Pow2(s) - t
        x == <<1>> \o DivLimbs(rem, t, Limbs)
        last == DivRest(rem, t, Limbs)
        guard == (2 * last) \div t
        sticky == (2 * last) % t # 0
        up == guard = 1 /\ (sticky \/ x[Len(x)] % 2 = 1)
    IN [sig |-> IF up THEN AddLast(x, 1) ELSE x, scale |-> s]

\* the double x * 100: the product has k bits more than the precision,
\* which are cleared, with rounding to nearest, ties to even
Times100(x) ==
    LET product == Multiply(x.sig, 100)
        k == BitLength(product[1]) - 1
        last == product[Len(product)]
        low == last % Pow2(k)
        half == Pow2(k - 1)
        odd == (last \div Pow2(k)) % 2 = 1
        up == low > half \/ (low = half /\ odd)
    IN [sig |-> AddLast(product, (IF up THEN Pow2(k) ELSE 0) - low),
        scale |-> x.scale]

\* the integer below x
MathFloor(x) == x.sig[1] \div Pow2(x.scale)

\* Math.round(x) for a positive double x: floor(x + 1/2), the integer part
\* of x plus its first bit after the binary point
MathRound(x) ==
    (x.sig[1] \div Pow2(x.scale))
       + (IF x.scale > 0
          THEN (x.sig[1] \div Pow2(x.scale - 1)) % 2
          ELSE x.sig[2] \div Pow2(LimbBits - 1))

\* totalVotes > 0 ? Math.round((count / totalVotes) * 100) : 0
Percentage(count, totalVotes) ==
    IF totalVotes > 0
    THEN (IF count = 0 THEN 0 ELSE MathRound(Times100(Quotient(count, totalVotes))))
    ELSE 0

\* ------------------------------------------- the reads of VoteService
\* what a read operation returned: the operation, its arguments, what
\* became of its store queries ("answered", "failed", or "none" when none
\* was made), whether an exception left it, and the value
Answer(op, p, u, store, outcome) ==
    [op |-> op, pollId |-> p, userId |-> u, store |-> store,
     threw |-> outcome.threw, value |-> outcome.value]

\* the operation returns a value
Returned(value) == [threw |-> FALSE, value |-> value]

\* the values null and undefined, and the error a failed store call throws
Null == [null |-> TRUE]
Undefined == [undefined |-> TRUE]
StoreError == [error |-> "store"]

\* an operation without its catch block: the error leaves it
Uncaught(fallback) == [threw |-> TRUE, value |-> StoreError]

\* catch (error) { console.error(...); return fallback; }
Caught(fallback) == [threw |-> FALSE, value |-> fallback]

\* the rows of poll p and of option o
PollVotes(vs, p) == {v \in vs : v.pollId = p}
OptionVotes(vs, p, o) == {v \in vs : v.pollId = p /\ v.optionId = o}

\* option.votes.length, option._count.votes
Count(vs, p, o) == Cardinality(OptionVotes(vs, p, o))

\* voters that are listed whatever isAnonymous says
VotersAlways(poll, vs, o) == [users |-> {v.userId : v \in OptionVotes(vs, poll.id, o)}]

\* voters: poll.isAnonymous ? undefined : option.votes.map(v => v.userId)
Voters(poll, vs, o) ==
    IF poll.isAnonymous THEN Undefined
    ELSE [users |-> {v.userId : v \in OptionVotes(vs, poll.id, o)}]

\* the entry of getPollResults for the option at position k
OptionResult(poll, vs, k) ==
    LET o == <<poll.id, k>>
    IN [optionId |-> o,
        count |-> Count(vs, poll.id, o),
        percentage |-> Percentage(Count(vs, poll.id, o), Cardinality(PollVotes(vs, poll.id))),
        voters |-> Voters(poll, vs, o)]

\* what getPollResults returns once its query was answered (lines 123-147)
PollResults(ps, vs, p) ==
    IF p \notin DOMAIN ps THEN Null
    ELSE [pollId |-> p,
          totalVotes |-> Cardinality(PollVotes(vs, p)),
          results |-> [i \in 1..ps[p].nOptions |-> OptionResult(ps[p], vs, i - 1)],
          isAnonymous |-> ps[p].isAnonymous,
          status |-> ps[p].status]

\* The query of getPollResults reads `poll?.isAnonymous` inside the
\* initialiser of `const poll` (line 111).  What that does is decided by the
\* build: compiled to a `var` the name is undefined there and the votes are
\* selected; kept as `const` the read throws a ReferenceError, which the
\* catch block turns into null before any query is made.
Builds == {"var", "const"}

\* getPollResults(p) from call to return
GetPollResults(p) ==
    /\ \E build \in Builds, storeFails \in BOOLEAN :
          answer' = IF build = "const"
                    THEN Answer("getPollResults", p, 0, "none", Caught(Null))
                    ELSE IF storeFails
                    THEN Answer("getPollResults", p, 0, "failed", Caught(Null))
                    ELSE Answer("getPollResults", p, 0, "answered",
                                Returned(PollResults(polls, votes, p)))
    /\ UNCHANGED <<polls, votes, jobs, now, casts, closers, creating, reply, hist>>
    /\ UNCHANGED queueVars

\* what getVotingStats returns once its two queries were answered
VotingStats(ps, vs, p) ==
    IF p \notin DOMAIN ps THEN Null
    ELSE [pollId |-> p,
          totalVotes |-> Cardinality(PollVotes(vs, p)),
          uniqueVoters |-> Cardinality({v.userId : v \in PollVotes(vs, p)}),
          options |-> [i \in 1..ps[p].nOptions |->
              [id |-> <<p, i - 1>>,
               votes |-> Count(vs, p, <<p, i - 1>>),
               percentage |-> Percentage(Count(vs, p, <<p, i - 1>>),
                                         Cardinality(PollVotes(vs, p)))]],
          status |-> ps[p].status,
          expiresAt |-> ps[p].expiresAt,
          allowMultiple |-> ps[p].allowMultiple,
          isAnonymous |-> ps[p].isAnonymous]

\* getVotingStats(p) from call to return
GetVotingStats(p) ==
    /\ \E storeFails \in BOOLEAN :
          answer' = IF storeFails
                    THEN Answer("getVotingStats", p, 0, "failed", Caught(Null))
                    ELSE Answer("getVotingStats", p, 0, "answered",
                                Returned(VotingStats(polls, votes, p)))
    /\ UNCHANGED <<polls, votes, jobs, now, casts, closers, creating, reply, hist>>
    /\ UNCHANGED queueVars

\* the list of option ids getUserVotes returns
OptionIds(os) == [optionIds |-> os]

\* a findMany that ignores the userId of its where clause
UserOptionsAnyone(vs, p, u) == {v.optionId : v \in PollVotes(vs, p)}

\* votes.map(vote => vote.optionId) of findMany where pollId, userId
UserOptions(vs, p, u) == {v.optionId : v \in UserVotes(vs, p, u)}

\* getUserVotes(p, u) from call to return
GetUserVotes(p, u) ==
    /\ \E storeFails \in BOOLEAN :
          answer' = IF storeFails
                    THEN Answer("getUserVotes", p, u, "failed", Caught(OptionIds({})))
                    ELSE Answer("getUserVotes", p, u, "answered",
                                Returned(OptionIds(UserOptions(votes, p, u))))
    /\ UNCHANGED <<polls, votes, jobs, now, casts, closers, creating, reply, hist>>
    /\ UNCHANGED queueVars

ValidationErrorMsg == "Validation error"

\* a validation that does not look at the expiry
ValidationNoExpiry(ps, vs, t, p, u, o) ==
    LET pre == Precheck(p \in DOMAIN ps, FindPoll(ps, p), o, t)
    IN IF pre \in {"ok", ExpiredMsg} THEN [valid |-> TRUE, reason |-> "none"]
       ELSE [valid |-> FALSE, reason |-> pre]

\* what validateVote returns once its query was answered (lines 195-224)
Validation(ps, vs, t, p, u, o) ==
    LET pre == Precheck(p \in DOMAIN ps, FindPoll(ps, p), o, t)
    IN IF pre = "ok" THEN [valid |-> TRUE, reason |-> "none"]
       ELSE [valid |-> FALSE, reason |-> pre]

\* validateVote(p, u, o) from call to return
ValidateVote(p, u, o) ==
    /\ \E storeFails \in BOOLEAN :
          LET failed == [valid |-> FALSE, reason |-> ValidationErrorMsg]
          IN answer' = IF storeFails
                       THEN Answer("validateVote", p, u, "failed", Caught(failed))
                       ELSE Answer("validateVote", p, u, "answered",
                                   Returned(Validation(polls, votes, now, p, u, o)))
    /\ UNCHANGED <<polls, votes, jobs, now, casts, closers, creating, reply, hist>>
    /\ UNCHANGED queueVars

\* ------------------------------------------------------- specification
\* no read operation has returned yet
NoAnswer == Answer("none", 0, 0, "none", Returned(Null))

NoCall == [pollId |-> 0, optionId |-> Bogus, result |-> "none", ok |-> FALSE, before |-> {}]

Init ==
    /\ polls = <<>>
    /\ votes = {}
    /\ jobs = <<>>
    /\ now = 0
    /\ casts = EmptyBag
    /\ closers = EmptyBag
    /\ creating = IdleCreate
    /\ reply = "none"
    /\ hist = [u \in Users |-> NoCall]
    /\ answer = NoAnswer
    /\ QueueIdle

Next ==
    \/ \E p \in PollIds, u \in Users, o \in OptionInputs : CastRead(p, u, o)
    \/ \E c \in BagToSet(casts) : CastDelete(c)
    \/ \E c \in BagToSet(casts) : CastDeleteMany(c)
    \/ \E c \in BagToSet(casts) : CastCreate(c)
    \/ \E u \in Creators, multi \in BOOLEAN, anon \in Anonymity, d \in Durations, n \in OptionCounts :
          CreatePollInsert(u, multi, anon, d, n)
    \/ CreatePollSetMessage
    \/ CreatePollSchedule
    \/ \E p \in PollIds, u \in Users : ClosePollRead(p, u)
    \/ \E c \in BagToSet(closers) : ClosePollUpdate(c)
    \/ \E p \in PollIds : JobRead(p)
    \/ \E p \in PollIds : JobUpdate(p)
    \/ \E p \in PollIds : JobNotify(p)
    \/ Tick

Spec == Init /\ [][Next]_vars

\* ------------------------------------------- handlers run to completion
\* castVote(p, u, o) from call to return: the votes it leaves and its result
CastVote(ps, vs, t, p, u, o) ==
    LET poll == FindPoll(ps, p)
        pre == Precheck(p \in DOMAIN ps, poll, o, t)
        plan == Plan(poll, UserVotes(vs, p, u), o)
    IN IF pre # "ok" THEN [votes |-> vs, result |-> pre]
       ELSE IF plan.next = "delete"
       THEN LET r == VoteDelete(vs, plan.id)
            IN [votes |-> r.votes, result |-> DeleteResult(r)]
       ELSE LET cleared == IF plan.next = "deleteMany" THEN VoteDeleteMany(vs, p, u) ELSE vs
                r == VoteCreate(cleared, FreshId(UsedIds(cleared), p, u, o), p, u, o)
            IN [votes |-> r.votes, result |-> CreateResult(r)]

\* the poll is open and not past its expiry, and o is one of its options
Votable(p, o) ==
    /\ p \in DOMAIN polls
    /\ polls[p].status = "OPEN"
    /\ ~(polls[p].expiresAt # NoDate /\ polls[p].expiresAt < now)
    /\ o \in OptionsOf(p, polls[p].nOptions)

SeqCastVote(p, u, o) ==
    /\ LET run == CastVote(polls, votes, now, p, u, o)
       IN /\ votes' = run.votes
          /\ reply' = run.result
          /\ hist' = [hist EXCEPT ![u] =
                [pollId |-> p, optionId |-> o, result |-> run.result,
                 ok |-> Votable(p, o), before |-> HeldOptions(votes, p, u)]]
    /\ UNCHANGED <<polls, jobs, now, casts, closers, creating, answer>>
    /\ UNCHANGED queueVars

\* createPoll from call to return
SeqCreatePoll(u, multi, anon, duration, n) ==
    /\ NextPollId \in PollIds
    /\ IF ValidateOptions(n) # "ok"
       THEN /\ reply' = ValidateOptions(n)
            /\ UNCHANGED <<polls, jobs>>
       ELSE LET p == NextPollId
                expiresAt == ExpiresAt(duration, now)
            IN /\ polls' = PollSetMessage(
                              (p :> NewPoll(p, u, multi, anon, expiresAt, n)) @@ polls, p)
               /\ jobs' = IF expiresAt # NoDate
                          THEN AddPollCloseJob(jobs, p, expiresAt, now)
                          ELSE jobs
               /\ reply' = CreatedMsg
    /\ UNCHANGED <<votes, now, casts, closers, creating, hist, answer>>
    /\ UNCHANGED queueVars

\* closePoll from call to return
SeqClosePoll(p, u) ==
    /\ LET d == CloseDecide(p \in DOMAIN polls, FindPoll(polls, p), u)
       IN IF d = "update"
          THEN /\ polls' = PollClose(polls, p)
               /\ reply' = ClosedOkMsg
          ELSE /\ reply' = d
               /\ UNCHANGED polls
    /\ UNCHANGED <<votes, jobs, now, casts, closers, creating, hist, answer>>
    /\ UNCHANGED queueVars

\* one run of the worker callback for the job of poll p
SeqJob(p) ==
    /\ p \in DOMAIN jobs
    /\ jobs[p].state = "waiting"
    /\ JobDue(jobs[p], now)
    /\ polls' = IF p \notin DOMAIN polls \/ polls[p].status = "CLOSED"
                THEN polls
                ELSE PollClose(polls, p)
    /\ jobs' = [jobs EXCEPT ![p].state = "completed"]
    /\ UNCHANGED <<votes, now, casts, closers, creating, reply, hist, answer>>
    /\ UNCHANGED queueVars

NextSeq ==
    \/ \E p \in PollIds, u \in Users, o \in OptionInputs : SeqCastVote(p, u, o)
    \/ \E u \in Creators, multi \in BOOLEAN, anon \in Anonymity, d \in Durations, n \in OptionCounts :
          SeqCreatePoll(u, multi, anon, d, n)
    \/ \E p \in PollIds, u \in Users : SeqClosePoll(p, u)
    \/ \E p \in PollIds : SeqJob(p)
    \/ Tick

SpecSeq == Init /\ [][NextSeq]_vars

\* --------------------------------- concurrent calls for the same triple
SamePoll == CHOOSE p \in PollIds : TRUE
SameUser == CHOOSE u \in Users : TRUE
SameOption == <<SamePoll, 0>>

\* a call that was made and whose findUnique is not answered yet
SameCall == CastRec("call", SamePoll, SameUser, SameOption, NoId)

VoteRow(p, u, o) == [id |-> <<p, u, o, 0>>, pollId |-> p, userId |-> u, optionId |-> o]

\* a single-select poll without expiry on which the user holds no vote or
\* one vote, and NumSame calls castVote(p, u, o) made at once
InitSame ==
    /\ polls = (SamePoll :> PollSetMessage(
                   (SamePoll :> NewPoll(SamePoll, 1, FALSE, FALSE, NoDate, MinOptions)),
                   SamePoll)[SamePoll])
    /\ votes \in {{}} \cup {{VoteRow(SamePoll, SameUser, o)} : o \in OptionsOf(SamePoll, MinOptions)}
    /\ jobs = <<>>
    /\ now = 0
    /\ casts = [c \in {SameCall} |-> NumSame]
    /\ closers = EmptyBag
    /\ creating = IdleCreate
    /\ reply = "none"
    /\ hist = [u \in Users |-> NoCall]
    /\ answer = NoAnswer
    /\ QueueIdle

SameRead ==
    /\ BagIn(SameCall, casts)
    /\ CastCall(SamePoll, SameUser, SameOption, casts (-) One(SameCall))

NextSame ==
    \/ SameRead
    \/ \E c \in BagToSet(casts) : CastDelete(c)
    \/ \E c \in BagToSet(casts) : CastDeleteMany(c)
    \/ \E c \in BagToSet(casts) : CastCreate(c)

SpecSame == InitSame /\ [][NextSame]_vars

\* ------------------------------------------------ the queue at work
\* single-select polls with a duration of one minute, created at time 0,
\* their message sent; nothing scheduled yet
InitQueue ==
    /\ polls = [p \in QueuePolls |->
                  PollSetMessage((p :> NewPoll(p, 1, FALSE, FALSE, ExpiresAt(1, 0), MinOptions)), p)[p]]
    /\ votes = {}
    /\ jobs = <<>>
    /\ now = 0
    /\ casts = EmptyBag
    /\ closers = EmptyBag
    /\ creating = IdleCreate
    /\ reply = "none"
    /\ hist = [u \in Users |-> NoCall]
    /\ answer = NoAnswer
    /\ QueueIdle

\* addPollCloseJob and removePollCloseJob are called for any poll, in any
\* order, while the worker runs the jobs that are due
NextQueue ==
    \/ \E p \in QueuePolls : ScheduleJob(p)
    \/ \E p \in QueuePolls : RemoveGet(p)
    \/ \E c \in BagToSet(removers) : RemoveDo(c)
    \/ \E j \in BagToSet(queue) : JobTake(j)
    \/ \E r \in BagToSet(runs) : RunRead(r)
    \/ \E r \in BagToSet(runs) : RunUpdate(r)
    \/ \E r \in BagToSet(runs) : RunEdit(r)
    \/ \E r \in BagToSet(runs) : RunSend(r)
    \/ Tick

SpecQueue == InitQueue /\ [][NextQueue]_vars

\* the closure job of one poll: deliveries, redeliveries, failures of the
\* store and of the notification, retries, and the creator's closePoll
WorkPoll == CHOOSE p \in QueuePolls : TRUE

NextWorker ==
    \/ ScheduleJob(WorkPoll)
    \/ RemoveGet(WorkPoll)
    \/ \E c \in BagToSet(removers) : RemoveDo(c)
    \/ \E j \in BagToSet(queue) : JobTake(j)
    \/ \E j \in BagToSet(queue) : JobStall(j)
    \/ \E r \in BagToSet(runs) : RunRead(r)
    \/ \E r \in BagToSet(runs) : RunReadFail(r)
    \/ \E r \in BagToSet(runs) : RunUpdate(r)
    \/ \E r \in BagToSet(runs) : RunUpdateFail(r)
    \/ \E r \in BagToSet(runs) : RunEdit(r)
    \/ \E r \in BagToSet(runs) : RunSend(r)
    \/ \E r \in BagToSet(runs) : RunNotifyFail(r)
    \/ CreatorClose(WorkPoll)
    \/ Tick

SpecWorker == InitQueue /\ [][NextWorker]_vars

\* the worker is running: time passes, a due job is taken when a slot of
\* the worker is free, and every store or Discord call of a run is answered
\* or fails
RunStep(r) ==
    \/ RunRead(r) \/ RunReadFail(r)
    \/ RunUpdate(r) \/ RunUpdateFail(r)
    \/ RunEdit(r) \/ RunSend(r) \/ RunNotifyFail(r)

WorkerFair ==
    /\ WF_vars(Tick)
    /\ WF_vars(\E j \in BagToSet(queue) : JobTake(j))
    /\ WF_vars(\E r \in BagToSet(runs) : RunStep(r))

SpecWorkerFair == SpecWorker /\ WorkerFair

\* ------------------------------------------------- createPoll by itself
\* create requests with their options strings, the failures of the calls
\* createPoll makes, the creator closing the poll, and the closure worker
NextCreate ==
    \/ \E u \in Creators, multi \in BOOLEAN, anon \in BOOLEAN, d \in Durations,
          raw \in OptionStrings : CreatePollCall(u, multi, anon, d, raw)
    \/ \E raw \in OptionStrings : CreatePollInsertFail(raw)
    \/ CreatePollSetMessage
    \/ CreatePollSchedule
    \/ CreatePollFail
    \/ \E p \in PollIds, u \in Creators : ClosePollRead(p, u)
    \/ \E c \in BagToSet(closers) : ClosePollUpdate(c)
    \/ \E p \in PollIds : JobRead(p)
    \/ \E p \in PollIds : JobUpdate(p)
    \/ \E p \in PollIds : JobNotify(p)
    \/ Tick

SpecCreate == Init /\ [][NextCreate]_vars

\* ------------------------------------- castVote with a failing store
\* the store calls of castVote, one of which may throw an error that is
\* not a unique constraint violation
StoreCalls == {"findUnique", "delete", "deleteMany", "create"}

\* the value castVote returns
CastValue(message) ==
    [success |-> message \in {AddedMsg, RemovedMsg}, message |-> message]

\* a store call threw and castVote's outer catch block returned (lines
\* 91-98); written is the vote table as the call left it
CastFailed(vs, written) ==
    [votes |-> written, store |-> "failed", outcome |-> Caught(CastValue(ErrorMsg))]

\* castVote(p, u, o) from call to return when the store call `fails` (if
\* the call is reached) throws: the votes it leaves and what it returns
CastVoteStore(ps, vs, t, p, u, o, fails) ==
    LET poll == FindPoll(ps, p)
        pre == Precheck(p \in DOMAIN ps, poll, o, t)
        plan == Plan(poll, UserVotes(vs, p, u), o)
        cleared == IF plan.next = "deleteMany" THEN VoteDeleteMany(vs, p, u) ELSE vs
        run == CastVote(ps, vs, t, p, u, o)
    IN IF fails = "findUnique" THEN CastFailed(vs, vs)
       ELSE IF pre = "ok" /\ plan.next = "delete" /\ fails = "delete"
       THEN CastFailed(vs, vs)
       ELSE IF pre = "ok" /\ plan.next = "deleteMany" /\ fails = "deleteMany"
       THEN CastFailed(vs, vs)
       ELSE IF pre = "ok" /\ plan.next # "delete" /\ fails = "create"
       THEN CastFailed(vs, cleared)
       ELSE [votes |-> run.votes, store |-> "answered",
             outcome |-> Returned(CastValue(run.result))]

\* castVote(p, u, o) from call to return
CastVoteReturn(p, u, o) ==
    /\ \E fails \in StoreCalls \cup {"none"} :
          LET run == CastVoteStore(polls, votes, now, p, u, o, fails)
          IN /\ votes' = run.votes
             /\ answer' = Answer("castVote", p, u, run.store, run.outcome)
    /\ UNCHANGED <<polls, jobs, now, casts, closers, creating, reply, hist>>
    /\ UNCHANGED queueVars

\* ------------------------------------------- reading what was voted
\* the id of a poll that was never created
MissingPoll == MaxPolls + 1

\* an OPEN poll of two options without expiry, no vote cast yet
InitResults ==
    /\ \E multi \in BOOLEAN, anon \in BOOLEAN :
          polls = (SamePoll :> PollSetMessage(
                      (SamePoll :> NewPoll(SamePoll, 1, multi, anon, NoDate, MinOptions)),
                      SamePoll)[SamePoll])
    /\ votes = {}
    /\ jobs = <<>>
    /\ now = 0
    /\ casts = EmptyBag
    /\ closers = EmptyBag
    /\ creating = IdleCreate
    /\ reply = "none"
    /\ hist = [u \in Users |-> NoCall]
    /\ answer = NoAnswer
    /\ QueueIdle

\* castVote calls one after the other, with and without store failures,
\* the creator closing the poll, and the reads in between
NextResults ==
    \/ \E p \in PollIds, u \in Users, o \in OptionInputs : CastVoteReturn(p, u, o)
    \/ \E p \in PollIds, u \in Creators : SeqClosePoll(p, u)
    \/ \E p \in PollIds \cup {MissingPoll} : GetPollResults(p)
    \/ \E p \in PollIds \cup {MissingPoll} : GetVotingStats(p)
    \/ \E p \in PollIds \cup {MissingPoll}, u \in Users : GetUserVotes(p, u)
    \/ \E p \in PollIds \cup {MissingPoll}, u \in Users, o \in OptionInputs :
          ValidateVote(p, u, o)

SpecResults == InitResults /\ [][NextResults]_vars

\* ----------------------------------------------- tallies of many votes
\* a single-select poll of TallyOptions options on which up to MaxVotes
\* users hold one vote each: the first a of them for the first option, the
\* next b for the second one, the others for the third
TallyOptions == MinOptions + 1

TallyVotes(p, a, b, c) ==
    {VoteRow(p, u, <<p, IF u <= a THEN 0 ELSE IF u <= a + b THEN 1 ELSE 2>>) :
        u \in 1..(a + b + c)}

InitTally ==
    /\ polls = (SamePoll :> PollSetMessage(
                   (SamePoll :> NewPoll(SamePoll, 1, FALSE, FALSE, NoDate, TallyOptions)),
                   SamePoll)[SamePoll])
    /\ \E a \in 0..MaxVotes, b \in 0..MaxVotes, c \in 0..MaxVotes :
          /\ a + b + c <= MaxVotes
          /\ votes = TallyVotes(SamePoll, a, b, c)
    /\ jobs = <<>>
    /\ now = 0
    /\ casts = EmptyBag
    /\ closers = EmptyBag
    /\ creating = IdleCreate
    /\ reply = "none"
    /\ hist = [u \in Users |-> NoCall]
    /\ answer = NoAnswer
    /\ QueueIdle

NextTally ==
    \/ GetPollResults(SamePoll)
    \/ GetVotingStats(SamePoll)

SpecTally == InitTally /\ [][NextTally]_vars

\* ------------------------------------------- casts on several polls
\* SpecCross: NumCrossPolls open polls without expiry, single- or
\* multi-select, on which the users cast with their calls interleaved
CrossPolls == 1..NumCrossPolls
CrossOptions == UNION {OptionsOf(p, MinOptions) : p \in CrossPolls}

InitCross ==
    /\ \E multi \in [CrossPolls -> BOOLEAN] :
          polls = [p \in CrossPolls |->
                      PollSetMessage((p :> NewPoll(p, 1, multi[p], FALSE, NoDate, MinOptions)),
                                     p)[p]]
    /\ votes = {}
    /\ jobs = <<>>
    /\ now = 0
    /\ casts = EmptyBag
    /\ closers = EmptyBag
    /\ creating = IdleCreate
    /\ reply = "none"
    /\ hist = [u \in Users |-> NoCall]
    /\ answer = NoAnswer
    /\ QueueIdle

NextCross ==
    \/ \E p \in CrossPolls, u \in Users, o \in CrossOptions : CastRead(p, u, o)
    \/ \E c \in BagToSet(casts) : CastDelete(c)
    \/ \E c \in BagToSet(casts) : CastDeleteMany(c)
    \/ \E c \in BagToSet(casts) : CastCreate(c)

SpecCross == InitCross /\ [][NextCross]_vars

\* ------------------------------------------ the job of a deleted poll
\* SpecGone: the closure job of one poll whose row can be deleted
\* out-of-band at any moment, before the job is due or while a run of the
\* callback is in flight
NextGone ==
    \/ ScheduleJob(WorkPoll)
    \/ DeletePoll(WorkPoll)
    \/ \E j \in BagToSet(queue) : JobTake(j)
    \/ \E j \in BagToSet(queue) : JobStall(j)
    \/ \E r \in BagToSet(runs) : RunRead(r)
    \/ \E r \in BagToSet(runs) : RunReadFail(r)
    \/ \E r \in BagToSet(runs) : RunUpdate(r)
    \/ \E r \in BagToSet(runs) : RunUpdateGone(r)
    \/ \E r \in BagToSet(runs) : RunUpdateFail(r)
    \/ \E r \in BagToSet(runs) : RunEdit(r)
    \/ \E r \in BagToSet(runs) : RunSend(r)
    \/ \E r \in BagToSet(runs) : RunNotifyFail(r)
    \/ Tick

SpecGone == InitQueue /\ [][NextGone]_vars

\* ------------------------------------------- validateVote and castVote
\* SpecChecks: one poll with or without expiry, single- or multi-select, on
\* which castVote and validateVote are called one after the other while
\* time passes and the creator closes the poll
InitChecks ==
    /\ \E multi \in BOOLEAN, d \in Durations :
          polls = (SamePoll :> PollSetMessage(
                      (SamePoll :> NewPoll(SamePoll, 1, multi, FALSE, ExpiresAt(d, 0),
                                           MinOptions)),
                      SamePoll)[SamePoll])
    /\ votes = {}
    /\ jobs = <<>>
    /\ now = 0
    /\ casts = EmptyBag
    /\ closers = EmptyBag
    /\ creating = IdleCreate
    /\ reply = "none"
    /\ hist = [u \in Users |-> NoCall]
    /\ answer = NoAnswer
    /\ QueueIdle

NextChecks ==
    \/ \E p \in PollIds \cup {MissingPoll}, u \in Users, o \in OptionInputs :
          CastVoteReturn(p, u, o)
    \/ \E p \in PollIds \cup {MissingPoll}, u \in Users, o \in OptionInputs :
          ValidateVote(p, u, o)
    \/ \E p \in PollIds, u \in Creators : SeqClosePoll(p, u)
    \/ Tick

SpecChecks == InitChecks /\ [][NextChecks]_vars

\* ------------------------------------------------ closure in the end
\* SpecLive: SpecCreate with the bot and the worker running: time passes, a
\* createPoll call goes on to its next step or fails there, and a due job is
\* taken and its store and Discord calls are answered
LiveFair ==
    /\ WF_vars(Tick)
    /\ WF_vars(CreatePollSetMessage \/ CreatePollSchedule \/ CreatePollFail)
    /\ WF_vars(\E p \in PollIds : JobRead(p))
    /\ WF_vars(\E p \in PollIds : JobUpdate(p))
    /\ WF_vars(\E p \in PollIds : JobNotify(p))

SpecLive == SpecCreate /\ LiveFair

\* ------------------------------------------ the results the job announces
\* SpecAnnounce: the closure job of one poll with the tallies it read, and
\* casts interleaved with its steps.  The job's findUnique loads the options
\* with their votes and _count.votes (lines 52-65); the notification is
\* computed from that value (lines 123-135).
Tally(ps, vs, p) ==
    [counts |-> [o \in OptionsOf(p, ps[p].nOptions) |-> Count(vs, p, o)],
     total |-> Cardinality(PollVotes(vs, p))]

NoTally == [counts |-> <<>>, total |-> 0]

\* the worker takes the job of poll p and loads the poll with its votes
AnnounceRead(p) ==
    /\ p \in DOMAIN jobs
    /\ jobs[p].state = "waiting"
    /\ JobDue(jobs[p], now)
    /\ jobs' = [jobs EXCEPT ![p] =
          IF WorkerDecide(p \in DOMAIN polls, FindPoll(polls, p)) = "skip"
          THEN [@ EXCEPT !.state = "completed"]
          ELSE [@ EXCEPT !.state = "active", !.pc = "update",
                         !.messageId = polls[p].messageId,
                         !.seen = Tally(polls, votes, p)]]
    /\ UNCHANGED <<polls, votes, now, casts, closers, creating, reply, hist, answer>>
    /\ UNCHANGED queueVars

\* prisma.poll.update to CLOSED (lines 78-81)
AnnounceUpdate(p) ==
    /\ p \in DOMAIN jobs
    /\ jobs[p].state = "active" /\ jobs[p].pc = "update"
    /\ polls' = PollClose(polls, p)
    /\ jobs' = [jobs EXCEPT ![p] =
          IF jobs[p].messageId THEN [@ EXCEPT !.pc = "notify"]
          ELSE [@ EXCEPT !.state = "completed", !.pc = "none"]]
    /\ UNCHANGED <<votes, now, casts, closers, creating, reply, hist, answer>>
    /\ UNCHANGED queueVars

\* the message is edited and the results are sent (lines 86-135)
AnnounceSend(p) ==
    /\ p \in DOMAIN jobs
    /\ jobs[p].state = "active" /\ jobs[p].pc = "notify"
    /\ jobs' = [jobs EXCEPT ![p] = [@ EXCEPT !.state = "completed", !.pc = "none"]]
    /\ answer' = Answer("announce", p, 0, "answered", Returned(jobs[p].seen))
    /\ UNCHANGED <<polls, votes, now, casts, closers, creating, reply, hist>>
    /\ UNCHANGED queueVars

\* an open poll that expires at 1, its message sent and its job scheduled
InitAnnounce ==
    /\ \E multi \in BOOLEAN :
          polls = (SamePoll :> PollSetMessage(
                      (SamePoll :> NewPoll(SamePoll, 1, multi, FALSE, ExpiresAt(1, 0),
                                           MinOptions)),
                      SamePoll)[SamePoll])
    /\ votes = {}
    /\ jobs = (SamePoll :> [state |-> "waiting", delay |-> 1, addedAt |-> 0,
                            pc |-> "none", messageId |-> FALSE, seen |-> NoTally])
    /\ now = 0
    /\ casts = EmptyBag
    /\ closers = EmptyBag
    /\ creating = IdleCreate
    /\ reply = "none"
    /\ hist = [u \in Users |-> NoCall]
    /\ answer = NoAnswer
    /\ QueueIdle

NextAnnounce ==
    \/ \E p \in PollIds, u \in Users, o \in OptionInputs : CastRead(p, u, o)
    \/ \E c \in BagToSet(casts) : CastDelete(c)
    \/ \E c \in BagToSet(casts) : CastDeleteMany(c)
    \/ \E c \in BagToSet(casts) : CastCreate(c)
    \/ \E p \in PollIds : AnnounceRead(p)
    \/ \E p \in PollIds : AnnounceUpdate(p)
    \/ \E p \in PollIds : AnnounceSend(p)
    \/ Tick

SpecAnnounce == InitAnnounce /\ [][NextAnnounce]_vars

\* ------------------------------------------------------ the vote button
\* handleVoteButton, the handler bot.ts calls for a vote_ button: the reads,
\* checks and writes of castVote with replies of its own
ButtonNotFoundMsg == "Poll not found."
ButtonClosedMsg == "This poll is closed."
ButtonExpiredMsg == "This poll has expired."
ButtonInvalidMsg == "Invalid option selected."
ButtonRemovedMsg == "Removed your vote"
ButtonAddedMsg == "Voted"
ButtonDuplicateMsg == "You have already voted for this option."
ButtonErrorMsg == "An error occurred while processing your vote."

\* the reply for a failed precondition (lines 23-55)
ButtonPrecheckMsg(pre) ==
    CASE pre = NotFoundMsg -> ButtonNotFoundMsg
      [] pre = ClosedMsg -> ButtonClosedMsg
      [] pre = ExpiredMsg -> ButtonExpiredMsg
      [] pre = InvalidMsg -> ButtonInvalidMsg

\* the class of an outcome of castVote or of handleVoteButton
OutcomeClass(message) ==
    CASE message \in {NotFoundMsg, ButtonNotFoundMsg} -> "not found"
      [] message \in {ClosedMsg, ButtonClosedMsg} -> "closed"
      [] message \in {ExpiredMsg, ButtonExpiredMsg} -> "expired"
      [] message \in {InvalidMsg, ButtonInvalidMsg} -> "invalid option"
      [] message \in {RemovedMsg, ButtonRemovedMsg} -> "removed"
      [] message \in {AddedMsg, ButtonAddedMsg} -> "added"
      [] message \in {DuplicateMsg, ButtonDuplicateMsg} -> "already voted"
      [] message \in {ErrorMsg, ButtonErrorMsg} -> "generic error"

\* the inner catch (lines 95-102): whatever prisma.vote.create threw, the
\* reply is 'already voted'
ButtonCreateFailed(unique) == ButtonDuplicateMsg

\* handleVoteButton from the button press to its reply when the store call
\* `fails` (if the call is reached) throws an error that is not P2002: the
\* votes it leaves and what it replies
ButtonStore(ps, vs, t, p, u, o, fails) ==
    LET poll == FindPoll(ps, p)
        pre == Precheck(p \in DOMAIN ps, poll, o, t)
        plan == Plan(poll, UserVotes(vs, p, u), o)
        cleared == IF plan.next = "deleteMany" THEN VoteDeleteMany(vs, p, u) ELSE vs
    IN IF fails = "findUnique" THEN [votes |-> vs, reply |-> ButtonErrorMsg]
       ELSE IF pre # "ok" THEN [votes |-> vs, reply |-> ButtonPrecheckMsg(pre)]
       ELSE IF plan.next = "delete"
       THEN LET r == VoteDelete(vs, plan.id)
            IN IF fails = "delete" \/ ~r.ok
               THEN [votes |-> vs, reply |-> ButtonErrorMsg]
               ELSE [votes |-> r.votes, reply |-> ButtonRemovedMsg]
       ELSE IF plan.next = "deleteMany" /\ fails = "deleteMany"
       THEN [votes |-> vs, reply |-> ButtonErrorMsg]
       ELSE LET r == VoteCreate(cleared, FreshId(UsedIds(cleared), p, u, o), p, u, o)
            IN IF fails = "create"
               THEN [votes |-> cleared, reply |-> ButtonCreateFailed(FALSE)]
               ELSE IF ~r.ok
               THEN [votes |-> cleared, reply |-> ButtonCreateFailed(TRUE)]
               ELSE [votes |-> r.votes, reply |-> ButtonAddedMsg]

\* a button press from the interaction to the reply; updatePollMessage, which
\* follows a vote that was added or removed, reads the poll again and edits
\* the message (lines 105-185)
HandleVoteButton(p, u, o, fails) ==
    /\ LET run == ButtonStore(polls, votes, now, p, u, o, fails)
       IN /\ votes' = run.votes
          /\ reply' = run.reply
    /\ UNCHANGED <<polls, jobs, now, casts, closers, creating, hist, answer>>
    /\ UNCHANGED queueVars

\* SpecButton: button presses one after the other, with and without store
\* failures, on the poll of SpecChecks
NextButton ==
    \/ \E p \in PollIds \cup {MissingPoll}, u \in Users, o \in OptionInputs,
          fails \in StoreCalls \cup {"none"} : HandleVoteButton(p, u, o, fails)
    \/ \E p \in PollIds, u \in Creators : SeqClosePoll(p, u)
    \/ Tick

SpecButton == InitChecks /\ [][NextButton]_vars

\* ================================================================ claims
TypeOK ==
    /\ DOMAIN polls \subseteq PollIds \cup QueuePolls
    /\ \A v \in votes : v.pollId \in DOMAIN polls /\ v.userId \in Users
    /\ now \in Times

\* C1: on a poll with allowMultiple = false a user holds at most one vote
\* row at any time, whatever the interleaving of the casts.
SingleSelectOneVote ==
    \A p \in DOMAIN polls, u \in Users :
        ~polls[p].allowMultiple => Cardinality(UserVotes(votes, p, u)) <= 1

\* C2: there is at most one vote row for a triple (poll, user, option), on
\* single-select and multi-select polls alike.
TripleUnique ==
    \A v \in votes, w \in votes :
        SameTriple(v, w.pollId, w.userId, w.optionId) => v = w

\* a concurrent duplicate insert was rejected and the row is there once
DuplicateRejected ==
    /\ reply = DuplicateMsg
    /\ \E p \in DOMAIN polls, u \in Users, o \in OptionInputs :
          Cardinality({v \in votes : SameTriple(v, p, u, o)}) = 1

\* C3: concurrent castVote(p, u, o) calls for one triple on a single-select
\* poll never leave the user with more than one vote row on the poll, during
\* the calls and once all of them have returned.
SameTripleAtMostOne ==
    Cardinality(UserVotes(votes, SamePoll, SameUser)) <= 1

\* all the calls have returned, one of them lost the race for the insert
SameRaceEnded ==
    /\ casts = EmptyBag
    /\ reply = DuplicateMsg
    /\ HeldOptions(votes, SamePoll, SameUser) = {SameOption}

\* C4: a cast for an option the user holds deletes that vote and returns
\* 'removed'; castVote(p, u, o) twice in a row on an open poll, the user not
\* holding o at first, returns 'added' then 'removed' and leaves no vote for
\* (p, u, o).
ToggleSequential ==
    [][\A p \in PollIds, u \in Users, o \in OptionInputs :
          (SeqCastVote(p, u, o) /\ Votable(p, o)) =>
             /\ o \in HeldOptions(votes, p, u) =>
                   reply' = RemovedMsg /\ o \notin HeldOptions(votes', p, u)
             /\ (hist[u].pollId = p /\ hist[u].optionId = o /\ hist[u].ok
                   /\ o \notin hist[u].before) =>
                   /\ hist[u].result = AddedMsg
                   /\ reply' = RemovedMsg
                   /\ o \notin HeldOptions(votes', p, u)]_vars

\* the second of two casts for the same option has removed the vote
ToggledOff ==
    \E p \in DOMAIN polls, u \in Users :
        /\ hist[u].pollId = p /\ hist[u].result = RemovedMsg
        /\ hist[u].before = {hist[u].optionId}
        /\ hist[u].optionId \notin HeldOptions(votes, p, u)

\* C5: on an open single-select poll, castVote(p, u, o1) followed by
\* castVote(p, u, o2), o1 # o2, leaves the user with exactly the vote for o2
\* and the second call returns 'added'.
ReplaceSequential ==
    [][\A p \in PollIds, u \in Users, o \in OptionInputs :
          (/\ SeqCastVote(p, u, o) /\ Votable(p, o)
           /\ ~polls[p].allowMultiple
           /\ hist[u].pollId = p /\ hist[u].ok /\ hist[u].optionId # o) =>
             /\ reply' = AddedMsg
             /\ HeldOptions(votes', p, u) = {o}
             /\ Cardinality(UserVotes(votes', p, u)) = 1]_vars

\* the second cast has replaced the vote the first one added
Replaced ==
    \E p \in DOMAIN polls, u \in Users :
        /\ ~polls[p].allowMultiple
        /\ hist[u].pollId = p /\ hist[u].result = AddedMsg
        /\ hist[u].before # {} /\ hist[u].optionId \notin hist[u].before
        /\ HeldOptions(votes, p, u) = {hist[u].optionId}

\* C6: on an open multi-select poll a cast for an option the user does not
\* hold deletes none of the user's votes; castVote(p, u, o1) followed by
\* castVote(p, u, o2), o1 # o2, the user holding neither at first, leaves the
\* user with the votes for o1 and o2 (and the votes held before).
AccumulateSequential ==
    [][\A p \in PollIds, u \in Users, o \in OptionInputs :
          (SeqCastVote(p, u, o) /\ Votable(p, o) /\ polls[p].allowMultiple) =>
             /\ o \notin HeldOptions(votes, p, u) =>
                   /\ reply' = AddedMsg
                   /\ UserVotes(votes, p, u) \subseteq UserVotes(votes', p, u)
             /\ (hist[u].pollId = p /\ hist[u].ok /\ hist[u].optionId # o
                   /\ hist[u].before \cap {hist[u].optionId, o} = {}) =>
                   HeldOptions(votes', p, u) = hist[u].before \cup {hist[u].optionId, o}]_vars

\* the second cast has added a vote next to the one the first cast added
Accumulated ==
    \E p \in DOMAIN polls, u \in Users :
        /\ polls[p].allowMultiple
        /\ hist[u].pollId = p /\ hist[u].result = AddedMsg
        /\ hist[u].before # {}
        /\ HeldOptions(votes, p, u) = hist[u].before \cup {hist[u].optionId}
        /\ Cardinality(HeldOptions(votes, p, u)) = 2

\* C7: castVote on a poll whose status is CLOSED returns 'Poll is closed'
\* and makes no store write: the votes are unchanged and the call is over.
ClosedCastFails ==
    [][\A p \in PollIds, u \in Users, o \in OptionInputs :
          (CastRead(p, u, o) /\ p \in DOMAIN polls /\ polls[p].status = "CLOSED") =>
             /\ reply' = ClosedMsg
             /\ votes' = votes
             /\ casts' = casts]_vars

\* a cast was refused on a closed poll that holds votes
ClosedCastSeen ==
    /\ reply = ClosedMsg
    /\ \E p \in DOMAIN polls : polls[p].status = "CLOSED" /\ votes # {}

\* C8: castVote on a poll that is still OPEN but past its expiresAt returns
\* 'Poll has expired' and makes no store write.
ExpiredCastFails ==
    [][\A p \in PollIds, u \in Users, o \in OptionInputs :
          (/\ CastRead(p, u, o) /\ p \in DOMAIN polls
           /\ polls[p].status = "OPEN"
           /\ polls[p].expiresAt # NoDate /\ polls[p].expiresAt < now) =>
             /\ reply' = ExpiredMsg
             /\ votes' = votes
             /\ casts' = casts]_vars

\* a cast was refused on an expired poll the closure job has not closed yet
ExpiredCastSeen ==
    /\ reply = ExpiredMsg
    /\ \E p \in DOMAIN polls :
          /\ polls[p].status = "OPEN" /\ polls[p].expiresAt < now
          /\ p \in DOMAIN jobs /\ jobs[p].state = "waiting"

\* C9: a poll that is CLOSED stays CLOSED in every step.
StatusMonotone ==
    [][\A p \in DOMAIN polls :
          polls[p].status = "CLOSED" =>
             p \in DOMAIN polls' /\ polls'[p].status = "CLOSED"]_vars

\* the poll is closed and casts and close commands were tried on it since
ClosedAndUsed ==
    \E p \in DOMAIN polls :
        /\ polls[p].status = "CLOSED"
        /\ reply \in {ClosedMsg, AlreadyClosedMsg}
        /\ p \in DOMAIN jobs /\ jobs[p].state = "completed"

\* C10: closePoll by a user who is not the creator returns the Forbidden
\* message and writes nothing, whatever the status of the poll; a poll goes
\* from OPEN to CLOSED only by the update of a close command of its creator
\* or by the update of its closure job.
NonCreatorForbidden ==
    [][/\ \A p \in PollIds, u \in Users :
             (ClosePollRead(p, u) /\ p \in DOMAIN polls /\ polls[p].creatorId # u) =>
                /\ reply' = ForbiddenMsg
                /\ polls' = polls
                /\ closers' = closers
       /\ \A p \in DOMAIN polls :
             (polls[p].status = "OPEN" /\ polls'[p].status = "CLOSED") =>
                \/ \E c \in BagToSet(closers) :
                      /\ c.pollId = p /\ c.userId = polls[p].creatorId
                      /\ ClosePollUpdate(c)
                \/ JobUpdate(p)]_vars

\* a close command of another user was refused on a poll that is closed
ForbiddenOnClosed ==
    /\ reply = ForbiddenMsg
    /\ \E p \in DOMAIN polls : polls[p].status = "CLOSED"

\* C11: closePoll by the creator on a poll that is CLOSED replies 'This poll
\* is already closed.' and issues no store write.
CreatorCloseAlreadyClosed ==
    [][\A p \in PollIds, u \in Users :
          (/\ ClosePollRead(p, u) /\ p \in DOMAIN polls
           /\ polls[p].creatorId = u /\ polls[p].status = "CLOSED") =>
             /\ reply' = AlreadyClosedMsg
             /\ polls' = polls
             /\ closers' = closers]_vars

\* the creator was told that the poll is closed already
AlreadyClosedSeen ==
    /\ reply = AlreadyClosedMsg
    /\ \E p \in DOMAIN polls : polls[p].status = "CLOSED"

\* C12: when closePoll of the creator has closed a poll, no closure job of
\* that poll is left pending in the queue.
CloseCancelsJob ==
    [][\A c \in BagToSet(closers) :
          ClosePollUpdate(c) =>
             ~(c.pollId \in DOMAIN jobs' /\ jobs'[c.pollId].state = "waiting")]_vars

\* C16: the delay of every closure job in the queue is >= 0.
DelayNonNegative ==
    \A p \in DOMAIN jobs : jobs[p].delay >= 0

\* C13: a run of the closure callback that finds the poll CLOSED returns
\* normally at once: no status write, no message edit, no notification, and
\* its job is completed without an attempt counted.
ClosedPollJobNoOp ==
    [][\A r \in BagToSet(runs) :
          (RunRead(r) /\ polls[r.pollId].status = "CLOSED") =>
             /\ polls' = polls
             /\ log' = log
             /\ runs' = runs (-) One(r)
             /\ JobsOf(queue', r.pollId) =
                   {IF j \in OwnJob(queue, r) THEN [j EXCEPT !.state = "completed"] ELSE j :
                       j \in JobsOf(queue, r.pollId)}]_vars

\* the creator closed the poll early, the job ran afterwards and did nothing
EarlyCloseThenJob ==
    \E p \in QueuePolls :
        /\ polls[p].status = "CLOSED" /\ log[p].creatorClosed
        /\ log[p].edits = 0 /\ log[p].sends = 0
        /\ runs = EmptyBag
        /\ \E j \in JobsOf(queue, p) : j.state = "completed" /\ j.attempts = 0

\* C14: the results notification of a poll is sent at most once, however
\* the runs of the closure callback for the poll interleave.
NotifiedAtMostOnce ==
    \A p \in QueuePolls : log[p].sends <= 1

\* C15: the queue holds at most one live closure job per poll, whatever the
\* sequence of addPollCloseJob and removePollCloseJob calls.
OneLiveJob ==
    \A p \in QueuePolls : LiveCount(queue, p) <= 1

\* a poll was scheduled a second time and has one live job
ScheduledTwice ==
    \E p \in QueuePolls : log[p].adds >= 2 /\ LiveCount(queue, p) = 1

\* C17: removePollCloseJob(p) removes the pending job of p and touches the
\* job of no other poll; without a job of p it returns without error and
\* changes nothing.
RemoveOnlyOwnJob ==
    [][/\ \A p \in QueuePolls :
             (RemoveGet(p) /\ JobsOf(queue, p) = {}) =>
                /\ reply' = NoJobMsg
                /\ queue' = queue
                /\ removers' = removers
       /\ \A c \in BagToSet(removers) :
             RemoveDo(c) =>
                /\ (\E j \in JobsOf(queue, c.pollId) : j.state = "waiting") =>
                      /\ JobsOf(queue', c.pollId) = {}
                      /\ reply' = JobRemovedMsg
                /\ \A p \in QueuePolls \ {c.pollId} :
                      /\ JobsOf(queue', p) = JobsOf(queue, p)
                      /\ \A j \in JobsOf(queue, p) : queue'[j] = queue[j]]_vars

\* the pending job of one poll was removed, the job of the other is there
RemovedOneOfTwo ==
    /\ reply = JobRemovedMsg
    /\ \E p \in QueuePolls, q \in QueuePolls :
          /\ JobsOf(queue, p) = {} /\ log[p].adds > 0
          /\ \E j \in JobsOf(queue, q) : j.state = "waiting"

\* C18: when a fetch, the edit or the send of the notification fails, the
\* poll stays CLOSED, the job is completed and no attempt is counted, so the
\* job is not run again.
NotifyFailureKeepsClosed ==
    [][\A r \in BagToSet(runs) :
          RunNotifyFail(r) =>
             /\ polls[r.pollId].status = "CLOSED"
             /\ polls' = polls
             /\ JobsOf(queue', r.pollId) =
                   {IF j \in OwnJob(queue, r) THEN [j EXCEPT !.state = "completed"] ELSE j :
                       j \in JobsOf(queue, r.pollId)}]_vars

\* the job closed the poll, the notification failed, the job is completed
ClosedNotAnnounced ==
    \E p \in QueuePolls :
        /\ polls[p].status = "CLOSED" /\ ~log[p].creatorClosed
        /\ log[p].sends = 0
        /\ runs = EmptyBag
        /\ \E j \in JobsOf(queue, p) :
              j.state = "completed" /\ j.attempts = 0 /\ j.stalls = 0

\* the runs of the callback started for job j so far
Executions(j) ==
    j.attempts + j.stalls + (IF j.state \in {"active", "completed"} THEN 1 ELSE 0)

\* C19: a job is failed exactly when Attempts of its runs have thrown, a
\* job that was never redelivered is run at most Attempts times, and every
\* live job comes to an end (completed, failed or removed).
RetryBounded ==
    /\ [](\A j \in BagToSet(queue) :
             /\ j.attempts <= Attempts
             /\ j.state = "failed" <=> j.attempts = Attempts
             /\ j.stalls = 0 => Executions(j) <= Attempts)
    /\ \A p \in QueuePolls : (LiveCount(queue, p) > 0) ~> (LiveCount(queue, p) = 0)

\* a job was given up after Attempts failed runs
JobAbandoned ==
    \E j \in BagToSet(queue) : j.state = "failed" /\ j.attempts = Attempts

\* C20: when the closure job of a poll was given up after its runs failed
\* at the store (the job was never redelivered, the creator did not close
\* the poll), the poll is OPEN.
AbandonedStaysOpen ==
    \A j \in BagToSet(queue) :
        (/\ j.state = "failed" /\ j.stalls = 0
         /\ log[j.pollId].adds = 1 /\ ~log[j.pollId].creatorClosed) =>
           polls[j.pollId].status = "OPEN"

\* the only job of the poll was given up and the poll is OPEN
AbandonedAndOpen ==
    \E j \in BagToSet(queue) :
        /\ j.state = "failed" /\ j.stalls = 0 /\ j.attempts = Attempts
        /\ log[j.pollId].adds = 1
        /\ polls[j.pollId].status = "OPEN"
        /\ runs = EmptyBag

\* C21: createPoll rejects an options string that has, its blank and empty
\* entries dropped, fewer than 2 or more than 10 options: no poll is stored
\* and the call ends there, so that no closure job is scheduled; with 2 to
\* 10 options the poll is stored as OPEN with that many options.
Texts(raw) == Cardinality({i \in DOMAIN raw : raw[i] \notin {"", " "}})

OptionCountChecked ==
    [][\A u \in Creators, multi \in BOOLEAN, anon \in BOOLEAN, d \in Durations,
         raw \in OptionStrings :
          CreatePollCall(u, multi, anon, d, raw) =>
             IF Texts(raw) < 2 \/ Texts(raw) > 10
             THEN /\ polls' = polls
                  /\ jobs' = jobs
                  /\ creating' = IdleCreate
                  /\ reply' \in {TooFewMsg, TooManyMsg}
             ELSE /\ DOMAIN polls' = DOMAIN polls \cup {NextPollId}
                  /\ polls'[NextPollId].status = "OPEN"
                  /\ polls'[NextPollId].nOptions = Texts(raw)]_vars

\* a request with too many options was refused and one with ten was stored
TenOptionsStored ==
    /\ \E p \in DOMAIN polls : polls[p].nOptions = 10 /\ polls[p].status = "OPEN"
    /\ reply = TooManyMsg

\* C22: once createPoll has returned, every OPEN poll that has an expiresAt
\* has its closure job in the queue, waiting or running.
ExpiringPollHasJob ==
    creating.pc = "idle" =>
        \A p \in DOMAIN polls :
            polls[p].status = "OPEN" /\ polls[p].expiresAt # NoDate =>
                p \in DOMAIN jobs /\ jobs[p].state \in {"waiting", "active"}

\* C23: whenever getPollResults is called for a poll after castVote calls
\* made one after the other, and the store answers, it reports for every
\* option as its count the number of vote rows held for that option, and as
\* totalVotes the number of all rows of the poll.
TalliesReported ==
    [][\A p \in PollIds :
          (GetPollResults(p) /\ answer'.store # "failed") =>
             /\ answer'.value # Null
             /\ \A i \in 1..polls[p].nOptions :
                   answer'.value.results[i].count =
                      Cardinality({v \in votes : v.optionId = <<p, i - 1>>})
             /\ answer'.value.totalVotes =
                   Cardinality({v \in votes : v.pollId = p})]_vars

\* the counts and percentages of the options in what getPollResults or
\* getVotingStats returned last
Reported ==
    IF answer.op = "getPollResults"
    THEN [i \in DOMAIN answer.value.results |->
            [count |-> answer.value.results[i].count,
             percentage |-> answer.value.results[i].percentage]]
    ELSE [i \in DOMAIN answer.value.options |->
            [count |-> answer.value.options[i].votes,
             percentage |-> answer.value.options[i].percentage]]

HasReport ==
    /\ answer.op \in {"getPollResults", "getVotingStats"}
    /\ answer.value # Null

\* C24: every percentage reported by getPollResults and getVotingStats is
\* an integer from 0 to 100: count * 100 / total rounded to the nearest
\* integer, a half rounded up, when the total is positive, and 0 when the
\* total is 0.
PercentageHalfUp ==
    HasReport =>
        \A i \in DOMAIN Reported :
            LET count == Reported[i].count
                total == answer.value.totalVotes
            IN /\ Reported[i].percentage \in 0..100
               /\ Reported[i].percentage =
                     IF total > 0 THEN (200 * count + total) \div (2 * total) ELSE 0

RECURSIVE SumPercentages(_, _)
\* the sum of the first n percentages of a result list
SumPercentages(results, n) ==
    IF n = 0 THEN 0 ELSE SumPercentages(results, n - 1) + results[n].percentage

\* C25: the percentages getPollResults returns for a poll of N options sum
\* to 100 give or take N/2 when the poll has votes, and are all 0 when it
\* has none.
PercentagesSum ==
    (answer.op = "getPollResults" /\ answer.value # Null) =>
        LET results == answer.value.results
            N == Len(results)
            sum == SumPercentages(results, N)
        IN IF answer.value.totalVotes > 0
           THEN 2 * (sum - 100) <= N /\ 2 * (100 - sum) <= N
           ELSE \A i \in 1..N : results[i].percentage = 0

\* the percentages returned for a poll with votes sum to 101
SumAboveHundred ==
    /\ answer.op = "getPollResults" /\ answer.value # Null
    /\ answer.value.totalVotes > 0
    /\ SumPercentages(answer.value.results, Len(answer.value.results)) = 101

\* the vote tables in which the users hold votes on poll p
VoteTables(p) ==
    SUBSET {VoteRow(p, u, o) : u \in Users, o \in OptionsOf(p, polls[p].nOptions)}

\* two vote tables with the same number of votes for every option of p
SameCounts(vs1, vs2, p) ==
    \A o \in OptionsOf(p, polls[p].nOptions) :
        Cardinality({v \in vs1 : v.pollId = p /\ v.optionId = o})
           = Cardinality({v \in vs2 : v.pollId = p /\ v.optionId = o})

\* C26: a result of getPollResults for an anonymous poll has no voter list
\* for any option and is the result for every vote table with the same
\* counts per option, whoever the voters are; a result for a poll that is
\* not anonymous lists for each option exactly the users who hold a vote
\* for it.
VotersOnlyWhenNamed ==
    [][\A p \in PollIds :
          (/\ answer'.op = "getPollResults" /\ answer'.value # Null
           /\ GetPollResults(p)) =>
             LET results == answer'.value.results
             IN IF polls[p].isAnonymous
                THEN /\ \A i \in DOMAIN results : results[i].voters = Undefined
                     /\ \A vs \in VoteTables(p) :
                           SameCounts(vs, votes, p) =>
                               PollResults(polls, vs, p) = answer'.value
                ELSE \A i \in DOMAIN results :
                        results[i].voters =
                           [users |-> {u \in Users : \E v \in votes :
                                          /\ v.pollId = p /\ v.userId = u
                                          /\ v.optionId = <<p, i - 1>>}]]_vars

\* results with votes in them were returned for an anonymous poll
AnonymousTally ==
    /\ answer.op = "getPollResults" /\ answer.value # Null
    /\ answer.value.isAnonymous
    /\ answer.value.totalVotes > 1
    /\ \A i \in DOMAIN answer.value.results : answer.value.results[i].voters = Undefined

\* C27: getUserVotes(p, u), when the store answers, returns exactly the
\* option ids for which u holds a vote row on p (none when u holds none),
\* and leaves polls, votes and jobs as they were.
UserVotesPureRead ==
    [][\A p \in PollIds \cup {MissingPoll}, u \in Users :
          (/\ answer'.op = "getUserVotes" /\ answer'.store = "answered"
           /\ GetUserVotes(p, u)) =>
             /\ answer'.value.optionIds =
                   {o \in OptionInputs : \E v \in votes :
                       v.pollId = p /\ v.userId = u /\ v.optionId = o}
             /\ polls' = polls /\ votes' = votes
             /\ jobs' = jobs /\ queue' = queue]_vars

\* getUserVotes returned the one option of a user while the other user
\* holds a vote for the other option
OwnVotesListed ==
    /\ answer.op = "getUserVotes" /\ answer.store = "answered"
    /\ Cardinality(answer.value.optionIds) = 1
    /\ \E v \in votes : v.userId # answer.userId /\ v.optionId \notin answer.value.optionIds
    /\ \E v \in votes : v.userId = answer.userId /\ v.optionId \in answer.value.optionIds

\* C28: when prisma.vote.create of a castVote call is rejected because
\* another call has inserted the same triple, the call returns 'You have
\* already voted for this option', not the generic error, and the row of
\* the triple is in the store exactly once.
DuplicateIsAlreadyVoted ==
    [][\A c \in BagToSet(casts) :
          (/\ CastCreate(c)
           /\ \E v \in votes : SameTriple(v, c.pollId, c.userId, c.optionId)) =>
             /\ reply' = "You have already voted for this option"
             /\ Cardinality({v \in votes' :
                   SameTriple(v, c.pollId, c.userId, c.optionId)}) = 1]_vars

\* all the calls have returned, the last one with the duplicate outcome,
\* and the row is there once
AlreadyVotedReturned ==
    /\ casts = EmptyBag
    /\ reply = DuplicateMsg
    /\ Cardinality({v \in votes : SameTriple(v, SamePoll, SameUser, SameOption)}) = 1

\* C29: whenever castVote returns a failure, a store failure included, the
\* vote rows of the user on the poll are those the user had before the
\* call.
FailedCastChangesNothing ==
    [][\A p \in PollIds, u \in Users, o \in OptionInputs :
          (/\ answer'.op = "castVote" /\ ~answer'.value.success
           /\ CastVoteReturn(p, u, o)) =>
             {v \in votes' : v.pollId = p /\ v.userId = u}
                = {v \in votes : v.pollId = p /\ v.userId = u}]_vars

\* C30: a VoteService operation one of whose store calls failed has
\* returned a value and thrown nothing: castVote a value with success
\* false, getPollResults and getVotingStats null, getUserVotes an empty
\* list, validateVote a value with valid false.
StoreFailuresReturned ==
    /\ ~answer.threw
    /\ answer.store = "failed" =>
          /\ answer.op = "castVote" => ~answer.value.success
          /\ answer.op \in {"getPollResults", "getVotingStats"} => answer.value = Null
          /\ answer.op = "getUserVotes" => answer.value.optionIds = {}
          /\ answer.op = "validateVote" => ~answer.value.valid

\* the store failed under getUserVotes for a user who holds a vote
FailedReadOfVoter ==
    /\ answer.op = "getUserVotes" /\ answer.store = "failed"
    /\ ~answer.threw
    /\ UserVotes(votes, answer.pollId, answer.userId) # {}

\* C31: castVote checks its preconditions in a fixed order and returns the
\* first failure: poll not found, then closed, then expired, then invalid
\* option.  A poll that is CLOSED and past its expiresAt yields 'Poll is
\* closed', 'Invalid option' is returned only for an open, unexpired poll,
\* and a call that returns one of the four failures leaves the votes as
\* they were.
PreconditionOrder ==
    [][\A p \in PollIds, u \in Users, o \in OptionInputs :
          SeqCastVote(p, u, o) =>
             LET found == p \in DOMAIN polls
                 poll == FindPoll(polls, p)
                 closed == poll.status = "CLOSED"
                 expired == poll.expiresAt # NoDate /\ poll.expiresAt < now
                 invalid == o \notin OptionsOf(p, poll.nOptions)
             IN /\ ~found => reply' = NotFoundMsg
                /\ (found /\ closed) => reply' = ClosedMsg
                /\ (found /\ ~closed /\ expired) => reply' = ExpiredMsg
                /\ (found /\ ~closed /\ ~expired /\ invalid) => reply' = InvalidMsg
                /\ reply' = InvalidMsg => (found /\ ~closed /\ ~expired /\ invalid)
                /\ reply' \in {NotFoundMsg, ClosedMsg, ExpiredMsg, InvalidMsg} =>
                      votes' = votes]_vars

\* a cast for an option that is not the poll's was answered 'Poll is closed'
\* on a poll that is CLOSED, past its expiresAt and holds votes
ClosedBeforeExpired ==
    \E p \in DOMAIN polls, u \in Users :
        /\ polls[p].status = "CLOSED"
        /\ polls[p].expiresAt # NoDate /\ polls[p].expiresAt < now
        /\ votes # {}
        /\ hist[u].pollId = p /\ hist[u].optionId = Bogus
        /\ hist[u].result = ClosedMsg /\ reply = ClosedMsg

\* C32: toggle-off takes precedence over replace and insert: when the user
\* already holds a vote for the cast option of a votable poll, castVote
\* deletes exactly that one vote row, inserts nothing and leaves every other
\* vote (the user's other votes on a multi-select poll included) unchanged.
ToggleOffOnly ==
    [][\A p \in PollIds, u \in Users, o \in OptionInputs :
          (SeqCastVote(p, u, o) /\ Votable(p, o) /\ o \in HeldOptions(votes, p, u)) =>
             /\ reply' = RemovedMsg
             /\ votes' \subseteq votes
             /\ votes \ votes' = {v \in votes : SameTriple(v, p, u, o)}
             /\ Cardinality(votes \ votes') = 1
             /\ HeldOptions(votes', p, u) = HeldOptions(votes, p, u) \ {o}]_vars

\* on a multi-select poll a user who held two votes toggled one of them off
\* and still holds the other
ToggledOneOfTwo ==
    \E p \in DOMAIN polls, u \in Users :
        /\ polls[p].allowMultiple
        /\ hist[u].pollId = p /\ hist[u].result = RemovedMsg
        /\ Cardinality(hist[u].before) = 2
        /\ HeldOptions(votes, p, u) = hist[u].before \ {hist[u].optionId}
        /\ Cardinality(UserVotes(votes, p, u)) = 1

\* C33: a cast by user u on poll p never inserts or deletes a vote row of
\* another user or of another poll, whatever the interleaving: the rows a
\* step of a call changes are rows of the call's (poll, user), and a user's
\* votes on a poll change only in a store write of a call of that user on
\* that poll.
CastWrite(c) == CastDelete(c) \/ CastDeleteMany(c) \/ CastCreate(c)

CastsIndependent ==
    [][/\ \A c \in BagToSet(casts) :
             CastWrite(c) =>
                \A v \in (votes \ votes') \cup (votes' \ votes) :
                   v.pollId = c.pollId /\ v.userId = c.userId
       /\ \A p \in CrossPolls, u \in Users :
             UserVotes(votes', p, u) # UserVotes(votes, p, u) =>
                \E c \in BagToSet(casts) :
                   c.pollId = p /\ c.userId = u /\ CastWrite(c)]_vars

\* a replace has cleared the votes of its user on a single-select poll (the
\* row another call of that user was about to delete is gone) while the other
\* user still holds a vote on that poll and the same user still holds a vote
\* on the other poll
ReplaceAmongOthers ==
    \E c \in BagToSet(casts), d \in BagToSet(casts) :
        /\ c.pc = "create" /\ ~polls[c.pollId].allowMultiple
        /\ d.pc = "delete" /\ d.target = GoneId
        /\ d.pollId = c.pollId /\ d.userId = c.userId
        /\ UserVotes(votes, c.pollId, c.userId) = {}
        /\ \E v \in votes : v.pollId = c.pollId /\ v.userId # c.userId
        /\ \E v \in votes : v.pollId # c.pollId /\ v.userId = c.userId

\* C34: a run of the closure callback that finds no poll under its id
\* returns normally at once: no status write, no message edit, no
\* notification, and its job is completed without an attempt counted, so
\* that it is not retried.
MissingPollJobNoOp ==
    [][\A r \in BagToSet(runs) :
          (RunRead(r) /\ r.pollId \notin DOMAIN polls) =>
             /\ polls' = polls /\ votes' = votes
             /\ log' = log
             /\ runs' = runs (-) One(r)
             /\ JobsOf(queue', r.pollId) =
                   {IF j \in OwnJob(queue, r) THEN [j EXCEPT !.state = "completed"] ELSE j :
                       j \in JobsOf(queue, r.pollId)}]_vars

\* the poll was deleted while it was open, its job ran afterwards and was
\* completed at its first attempt without anything edited or sent
DeletedThenJob ==
    /\ WorkPoll \notin DOMAIN polls
    /\ log[WorkPoll].edits = 0 /\ log[WorkPoll].sends = 0
    /\ runs = EmptyBag
    /\ \E j \in JobsOf(queue, WorkPoll) : j.state = "completed" /\ j.attempts = 0

\* C35: validateVote mirrors the preconditions of castVote: when its query
\* is answered it returns valid = false with the reason 'Poll not found',
\* 'Poll is closed', 'Poll has expired' or 'Invalid option' exactly when
\* castVote, called in the same state, fails with that message, it returns
\* valid = true in every other state (castVote then removes or adds a
\* vote), and it inserts and deletes no vote.
PrecheckFailures == {NotFoundMsg, ClosedMsg, ExpiredMsg, InvalidMsg}

ValidateMirrorsCast ==
    [][\A p \in PollIds \cup {MissingPoll}, u \in Users, o \in OptionInputs :
          (answer'.op = "validateVote" /\ ValidateVote(p, u, o)) =>
             LET cast == CastVote(polls, votes, now, p, u, o)
                 v == answer'.value
             IN /\ votes' = votes /\ polls' = polls
                /\ answer'.store = "answered" =>
                      /\ cast.result \in PrecheckFailures =>
                            v = [valid |-> FALSE, reason |-> cast.result]
                      /\ cast.result \notin PrecheckFailures =>
                            /\ v.valid
                            /\ cast.result \in {AddedMsg, RemovedMsg}
                      /\ ~v.valid => (v.reason = cast.result /\ cast.votes = votes)]_vars

\* validateVote answered 'Poll has expired' for an open poll past its
\* expiresAt on which votes were cast before
ExpiredValidation ==
    /\ answer.op = "validateVote" /\ answer.store = "answered"
    /\ answer.value = [valid |-> FALSE, reason |-> ExpiredMsg]
    /\ answer.pollId \in DOMAIN polls
    /\ polls[answer.pollId].status = "OPEN"
    /\ polls[answer.pollId].expiresAt # NoDate /\ polls[answer.pollId].expiresAt < now
    /\ votes # {}

\* C36: every poll created with a duration eventually has status CLOSED,
\* the queue delivering every pending job and the store answering the job,
\* whatever creation steps and close commands are interleaved (the polls
\* looked at are those whose expiry the clock of the model reaches).
ExpiringPollClosed ==
    \A p \in PollIds :
        (/\ p \in DOMAIN polls
         /\ polls[p].expiresAt # NoDate /\ polls[p].expiresAt <= MaxTime)
            ~> (p \in DOMAIN polls /\ polls[p].status = "CLOSED")

\* C37: once the status of a poll is CLOSED its vote rows never change
\* again, whatever the interleaving of the casts with closePoll and the
\* closure job: a cast that read the poll as OPEN neither inserts nor
\* deletes a vote after the status has become CLOSED.
ClosedVotesFrozen ==
    [][\A p \in DOMAIN polls :
          polls[p].status = "CLOSED" => PollVotes(votes', p) = PollVotes(votes, p)]_vars

\* C38: the transition of a poll from OPEN to CLOSED is performed once:
\* among the closePoll calls of the creator and the runs of the closure job
\* in flight together, only one writes CLOSED and reports the closure, that
\* is, every status write of closePoll or of the job finds the poll OPEN.
ClosedOnce ==
    [][/\ \A c \in BagToSet(closers) :
             ClosePollUpdate(c) => polls[c.pollId].status = "OPEN"
       /\ \A p \in DOMAIN jobs :
             JobUpdate(p) => polls[p].status = "OPEN"]_vars

\* C39: the final results the closure job announces are the final tallies
\* of the poll: the counts and the total it read are those of the vote rows
\* held when it writes CLOSED, and those of the rows held when it sends the
\* notification, whatever casts are interleaved with its steps.
AnnouncedIsFinal ==
    [][\A p \in DOMAIN jobs :
          /\ AnnounceUpdate(p) => jobs[p].seen = Tally(polls, votes, p)
          /\ AnnounceSend(p) => answer'.value = Tally(polls, votes, p)]_vars

\* C40: handleVoteButton and VoteService.castVote are equivalent: from the
\* same store state, with the same arguments and the same store responses,
\* the handler leaves the votes castVote leaves and replies with the outcome
\* class castVote returns; 'already voted' is reported only for a
\* uniqueness violation.
ButtonMatchesService ==
    [][\A p \in PollIds \cup {MissingPoll}, u \in Users, o \in OptionInputs,
          fails \in StoreCalls \cup {"none"} :
          HandleVoteButton(p, u, o, fails) =>
             LET run == CastVoteStore(polls, votes, now, p, u, o, fails)
             IN /\ votes' = run.votes
                /\ OutcomeClass(reply') = OutcomeClass(run.outcome.value.message)]_vars

====
